---- MODULE Spec2Model ----
(***************************************************************************)
(* Rename Proposal & Execution Engine of tidy-app                          *)
(* (apps/gui/src-tauri/src/commands/rename.rs) and the history store that  *)
(* records and undoes its results (commands/history.rs).                   *)
(*                                                                         *)
(* Strings are sequences of one-character strings, so that the character   *)
(* level passes (pattern stripping, sanitizing, template expansion) are    *)
(* computed the way the code computes them.                                *)
(***************************************************************************)
EXTENDS Integers, Sequences, FiniteSets, TLC

VARIABLES
    input,            \* argument of the pure function under check
    outputs,          \* its successive values
    scanned_files,    \* the FileInfo list passed to generate_preview
    template,         \* the template pattern passed to generate_preview
    preview_options,  \* the GeneratePreviewOptions
    disk,             \* regular files on disk: canonical path -> content
    dirs,             \* directories on disk
    preview,          \* the RenamePreview returned by generate_preview
    client_proposals, \* the proposal list the client hands to execute_rename
    selection,        \* ExecuteRenameOptions.proposal_ids
    rename_results,   \* the results vector of the running execute_rename
    batch_result,     \* the BatchRenameResult returned by execute_rename
    pc,               \* position of the client in the preview/apply flow
    interference,     \* what happened between preview and apply
    disk0,            \* the files on disk when execute_rename was called
    history_file,     \* the history.json file: absent, or its contents
    history_lock,     \* the advisory locks held on history.json
    calls,            \* the history commands that are running or have returned
    history0          \* history.json as it was before the commands started

pureVars == <<input, outputs>>
mainVars == <<scanned_files, template, preview_options, disk, dirs, preview, client_proposals,
              selection, rename_results, batch_result, pc, interference, disk0>>
historyVars == <<history_file, history_lock, calls, history0>>
vars == <<pureVars, mainVars, historyVars>>

\* no history command has been called and history.json does not exist
HistoryIdle ==
    /\ history_file = <<>>
    /\ history_lock = {}
    /\ calls = <<>>
    /\ history0 = <<>>

\* the preview/apply flow is not running
MainIdle ==
    /\ scanned_files = <<>>
    /\ template = <<>>
    /\ preview_options = <<>>
    /\ disk = <<>>
    /\ dirs = {}
    /\ preview = <<>>
    /\ client_proposals = <<>>
    /\ selection = <<>>
    /\ rename_results = <<>>
    /\ batch_result = <<>>
    /\ pc = "idle"
    /\ interference = "none"
    /\ disk0 = <<>>
    /\ HistoryIdle

(***************************************************************************)
(* Characters and generic string helpers (Rust str methods)                *)
(***************************************************************************)
Digit == {"0", "1", "2", "3", "4", "5", "6", "7", "8", "9"}

UpperLetters == <<"A", "B", "C", "D", "E", "F", "G", "H", "I", "J", "K", "L", "M",
                  "N", "O", "P", "Q", "R", "S", "T", "U", "V", "W", "X", "Y", "Z">>
LowerLetters == <<"a", "b", "c", "d", "e", "f", "g", "h", "i", "j", "k", "l", "m",
                  "n", "o", "p", "q", "r", "s", "t", "u", "v", "w", "x", "y", "z">>

\* char::to_uppercase / char::to_lowercase on the ASCII letters
CharUpper(c) ==
    IF \E k \in DOMAIN LowerLetters : LowerLetters[k] = c
    THEN UpperLetters[CHOOSE k \in DOMAIN LowerLetters : LowerLetters[k] = c]
    ELSE c
CharLower(c) ==
    IF \E k \in DOMAIN UpperLetters : UpperLetters[k] = c
    THEN LowerLetters[CHOOSE k \in DOMAIN UpperLetters : UpperLetters[k] = c]
    ELSE c

\* str::to_uppercase / str::to_lowercase
to_uppercase(s) == [k \in DOMAIN s |-> CharUpper(s[k])]
to_lowercase(s) == [k \in DOMAIN s |-> CharLower(s[k])]

\* s[from..] (1-based, from may be Len(s)+1)
Drop(s, n) == SubSeq(s, n + 1, Len(s))
Take(s, n) == SubSeq(s, 1, IF n < Len(s) THEN n ELSE Len(s))

\* str::starts_with / str::ends_with
starts_with(s, p) == Len(p) <= Len(s) /\ SubSeq(s, 1, Len(p)) = p
ends_with(s, p) == Len(p) <= Len(s) /\ SubSeq(s, Len(s) - Len(p) + 1, Len(s)) = p

\* str::contains for a substring
contains(s, p) == \E k \in 1..(Len(s) - Len(p) + 1) : SubSeq(s, k, k + Len(p) - 1) = p

\* str::rfind for a character: the last position of c, 0 when absent
rfind(s, c) ==
    IF \E k \in DOMAIN s : s[k] = c
    THEN CHOOSE k \in DOMAIN s : s[k] = c /\ \A j \in (k + 1)..Len(s) : s[j] # c
    ELSE 0

\* str::replace: every non-overlapping occurrence, left to right
RECURSIVE replace(_, _, _)
replace(s, from, to) ==
    LET occ == {k \in 1..(Len(s) - Len(from) + 1) : SubSeq(s, k, k + Len(from) - 1) = from}
        first == CHOOSE k \in occ : \A j \in occ : k <= j
    IN IF Len(from) = 0 \/ occ = {} THEN s
       ELSE SubSeq(s, 1, first - 1) \o to \o replace(Drop(s, first + Len(from) - 1), from, to)

\* str::trim_end_matches / trim_start_matches / trim_matches for a character set
trim_end_matches(s, cs) ==
    LET keep == {k \in 0..Len(s) : \A j \in (k + 1)..Len(s) : s[j] \in cs}
        n == CHOOSE k \in keep : \A j \in keep : k <= j
    IN SubSeq(s, 1, n)
trim_start_matches(s, cs) ==
    LET skip == {k \in 0..Len(s) : \A j \in 1..k : s[j] \in cs}
        n == CHOOSE k \in skip : \A j \in skip : k >= j
    IN Drop(s, n)
trim_matches(s, cs) == trim_end_matches(trim_start_matches(s, cs), cs)

\* concatenation of a sequence of strings

(***************************************************************************)
(* Pattern Stripper: DATE_PATTERNS, COUNTER_PATTERNS, clean_filename       *)
(***************************************************************************)
DateSep == {"-", "_"}
Separator == {"-", "_", " "}

AllDigits(s, a, b) == \A k \in a..b : s[k] \in Digit

\* DATE_PATTERNS and COUNTER_PATTERNS, each named by what it matches:
\*   iso       ^\d{4}[-_]\d{2}[-_]\d{2}[-_ ]?
\*   compact   ^\d{8}[-_ ]?
\*   european  ^\d{2}[-_]\d{2}[-_]\d{4}[-_ ]?
\*   date      [-_ ]\d{4}[-_]?\d{2}[-_]?\d{2}$
\*   counter   [-_ ]\d{1,4}$
\*   paren     \(\d{1,4}\)$
DATE_PATTERNS == <<"iso", "compact", "european", "date">>
COUNTER_PATTERNS == <<"counter", "paren">>

\* a pattern anchored at the start: the length of its match at the start of
\* s, -1 when there is none
MatchStart(pattern, s) ==
    CASE pattern = "iso" ->
            IF /\ Len(s) >= 10
               /\ AllDigits(s, 1, 4) /\ s[5] \in DateSep
               /\ AllDigits(s, 6, 7) /\ s[8] \in DateSep
               /\ AllDigits(s, 9, 10)
            THEN IF Len(s) >= 11 /\ s[11] \in Separator THEN 11 ELSE 10
            ELSE -1
      [] pattern = "compact" ->
            IF Len(s) >= 8 /\ AllDigits(s, 1, 8)
            THEN IF Len(s) >= 9 /\ s[9] \in Separator THEN 9 ELSE 8
            ELSE -1
      [] pattern = "european" ->
            IF /\ Len(s) >= 10
               /\ AllDigits(s, 1, 2) /\ s[3] \in DateSep
               /\ AllDigits(s, 4, 5) /\ s[6] \in DateSep
               /\ AllDigits(s, 7, 10)
            THEN IF Len(s) >= 11 /\ s[11] \in Separator THEN 11 ELSE 10
            ELSE -1

\* a pattern anchored at the end: whether it matches t entirely
MatchesEnd(pattern, t) ==
    CASE pattern = "date" ->
            /\ Len(t) >= 9
            /\ t[1] \in Separator
            /\ AllDigits(t, 2, 5)
            /\ \/ Len(t) = 9 /\ AllDigits(t, 6, 9)
               \/ Len(t) = 10 /\ t[6] \in DateSep /\ AllDigits(t, 7, 10)
               \/ Len(t) = 10 /\ AllDigits(t, 6, 7) /\ t[8] \in DateSep /\ AllDigits(t, 9, 10)
               \/ /\ Len(t) = 11 /\ t[6] \in DateSep /\ AllDigits(t, 7, 8)
                  /\ t[9] \in DateSep /\ AllDigits(t, 10, 11)
      [] pattern = "counter" ->
            /\ Len(t) \in 2..5
            /\ t[1] \in Separator
            /\ AllDigits(t, 2, Len(t))
      [] pattern = "paren" ->
            /\ Len(t) \in 3..6
            /\ t[1] = "(" /\ t[Len(t)] = ")"
            /\ AllDigits(t, 2, Len(t) - 1)

\* regex_lite Regex::replace(s, ""): removes the leftmost match, if any. For
\* a pattern anchored at the end the leftmost match starts at the least
\* position whose suffix the pattern matches entirely.
StripPattern(s, pattern) ==
    IF pattern \in {"iso", "compact", "european"}
    THEN (IF MatchStart(pattern, s) < 0 THEN s ELSE Drop(s, MatchStart(pattern, s)))
    ELSE IF \E k \in 1..Len(s) : MatchesEnd(pattern, SubSeq(s, k, Len(s)))
    THEN SubSeq(s, 1, (CHOOSE k \in 1..Len(s) :
                          /\ MatchesEnd(pattern, SubSeq(s, k, Len(s)))
                          /\ \A j \in 1..(k - 1) : ~MatchesEnd(pattern, SubSeq(s, j, Len(s))))
                      - 1)
    ELSE s

\* the loops of clean_filename over a pattern list, one replacement each
RECURSIVE StripPatterns(_, _)
StripPatterns(s, patterns) ==
    IF patterns = <<>> THEN s
    ELSE StripPatterns(StripPattern(s, Head(patterns)), Tail(patterns))

\* clean_filename without its fallback
OrOriginalDropped(result, name) == result

\* the fallback of clean_filename: the original name when nothing is left
OrOriginal(result, name) == IF result = <<>> THEN name ELSE result

clean_filename(name) ==
    IF name = <<>> THEN name
    ELSE OrOriginal(trim_matches(StripPatterns(StripPatterns(name, DATE_PATTERNS), COUNTER_PATTERNS),
                                 Separator),
                    name)

(***************************************************************************)
(* Filename validity and the Filename Sanitizer                            *)
(***************************************************************************)
\* the NUL character and a character that takes two bytes in UTF-8
NulChar == "0x00"
WideChar == "U+00E9"

INVALID_CHARS == {"/", "\\", ":", "*", "?", "\"", "<", ">", "|", NulChar}

RESERVED_NAMES ==
    {<<"C", "O", "N">>, <<"P", "R", "N">>, <<"A", "U", "X">>, <<"N", "U", "L">>}
    \cup {<<"C", "O", "M", d>> : d \in Digit \ {"0"}}
    \cup {<<"L", "P", "T", d>> : d \in Digit \ {"0"}}

MAX_FILENAME_LENGTH == 255

\* str::len: the length in bytes
len(s) == Len(s) + Cardinality({k \in DOMAIN s : s[k] = WideChar})

\* str::split('.').next(): the text before the first '.'
BeforeFirstDot(s) ==
    IF \E k \in DOMAIN s : s[k] = "."
    THEN SubSeq(s, 1, (CHOOSE k \in DOMAIN s : s[k] = "." /\ \A j \in 1..(k - 1) : s[j] # ".") - 1)
    ELSE s

is_valid_filename(name) ==
    /\ ~(name = <<>> \/ len(name) > 255)
    /\ ~(\E k \in DOMAIN name : name[k] \in INVALID_CHARS)
    /\ BeforeFirstDot(to_uppercase(name)) \notin RESERVED_NAMES
    /\ ~(ends_with(name, <<" ">>) \/ ends_with(name, <<".">>))

\* (name_part, ext_part) as a two-element sequence
split_filename(filename) ==
    IF filename = <<>> THEN <<<<>>, <<>>>>
    ELSE IF starts_with(filename, <<".">>) /\ ~contains(Tail(filename), <<".">>)
    THEN <<filename, <<>>>>
    ELSE LET pos == rfind(filename, ".")
         IN IF pos <= 1 THEN <<filename, <<>>>>
            ELSE <<SubSeq(filename, 1, pos - 1), SubSeq(filename, pos, Len(filename))>>

SanitizeChange(type, original, replacement) ==
    [change_type |-> type, original |-> original, replacement |-> replacement]

\* the truncated name, given the (name_part, ext_part) split of `filename`
Truncated(filename, max_length, parts) ==
    LET max_name_length == IF max_length > len(parts[2]) THEN max_length - len(parts[2])
                           ELSE 0
        available_length == IF max_name_length > 3 THEN max_name_length - 3 ELSE 0
    IN IF max_name_length < 1 THEN Take(filename, max_length)
       ELSE IF available_length > 0
       THEN Take(parts[1], available_length) \o <<".", ".", ".">> \o parts[2]
       ELSE Take(parts[1], max_name_length) \o parts[2]

\* the name truncate_filename returns
truncate_filename(filename, max_length) ==
    Truncated(filename, max_length, split_filename(filename))

\* Step 1: the distinct invalid characters, in order of first occurrence
UniqueInvalid(s) ==
    SelectSeq([k \in DOMAIN s |->
                 IF s[k] \in INVALID_CHARS /\ \A j \in 1..(k - 1) : s[j] # s[k]
                 THEN s[k] ELSE "keep"],
              LAMBDA c : c # "keep")

\* Step 2: collapse runs of the replacement character (fixed-point loop)
RECURSIVE Collapse(_, _)
Collapse(s, replacement) ==
    LET t == replace(s, <<replacement, replacement>>, <<replacement>>)
    IN IF t = s THEN s ELSE Collapse(t, replacement)

TrailingChars == {".", " "}

\* the (result, changes) pair sanitize_filename carries from step to step
\* Step 1: replace invalid characters
ReplaceInvalidChars(filename, replacement, unique_chars) ==
    IF unique_chars # <<>>
    THEN [result |-> [k \in DOMAIN filename |->
                        IF filename[k] \in INVALID_CHARS THEN replacement ELSE filename[k]],
          changes |-> <<SanitizeChange("char_replacement", unique_chars,
                                       [k \in DOMAIN unique_chars |-> replacement])>>]
    ELSE [result |-> filename, changes |-> <<>>]

\* Step 2: collapse consecutive replacement characters
CollapseReplacements(st, replacement) ==
    [st EXCEPT !.result = Collapse(@, replacement)]

\* Step 3: Windows reserved names
FixReservedSplit(st, parts) ==
    IF to_uppercase(parts[1]) \in RESERVED_NAMES
    THEN [result |-> parts[1] \o <<"_", "f", "i", "l", "e">> \o parts[2],
          changes |-> Append(st.changes,
                             SanitizeChange("reserved_name", parts[1],
                                            parts[1] \o <<"_", "f", "i", "l", "e">>))]
    ELSE st

FixReservedName(st) == FixReservedSplit(st, split_filename(st.result))

\* Step 4: trailing spaces and periods of the name part ...
FixTrailingName(st, parts, trimmed_name) ==
    IF trimmed_name # parts[1]
    THEN [result |-> trimmed_name \o parts[2],
          changes |-> Append(st.changes,
                             SanitizeChange("trailing_fix",
                                            Drop(parts[1], Len(trimmed_name)), <<>>))]
    ELSE st

\* ... and of the whole filename, when the name part was left alone
FixTrailingFull(st, name_untouched) ==
    IF trim_end_matches(st.result, TrailingChars) # st.result /\ name_untouched
    THEN [result |-> trim_end_matches(st.result, TrailingChars),
          changes |-> Append(st.changes,
                             SanitizeChange("trailing_fix",
                                            Drop(st.result,
                                                 Len(trim_end_matches(st.result,
                                                                      TrailingChars))),
                                            <<>>))]
    ELSE st

FixTrailingSplit(st, parts, trimmed_name) ==
    FixTrailingFull(FixTrailingName(st, parts, trimmed_name), trimmed_name = parts[1])

FixTrailingParts(st, parts) ==
    FixTrailingSplit(st, parts, trim_end_matches(parts[1], TrailingChars))

FixTrailing(st) == FixTrailingParts(st, split_filename(st.result))

\* Step 5: length truncation, and the change truncate_filename pushes
TruncateWith(st, result) ==
    [result |-> result,
     changes |-> Append(st.changes, SanitizeChange("truncation", st.result, result))]

TruncateLong(st) ==
    IF len(st.result) > MAX_FILENAME_LENGTH
    THEN TruncateWith(st, truncate_filename(st.result, MAX_FILENAME_LENGTH))
    ELSE st

SanitizeResult(filename, st) ==
    [sanitized |-> st.result, original |-> filename, changes |-> st.changes,
     was_modified |-> st.result # filename]

sanitize_filename(filename, replacement) ==
    IF filename = <<>>
    THEN [sanitized |-> filename, original |-> filename, changes |-> <<>>, was_modified |-> FALSE]
    ELSE SanitizeResult(filename,
            TruncateLong(FixTrailing(FixReservedName(CollapseReplacements(
                ReplaceInvalidChars(filename, replacement, UniqueInvalid(filename)),
                replacement)))))

(***************************************************************************)
(* Case Normalizer: split_into_words, normalize_case, normalize_filename   *)
(***************************************************************************)
WORD_SEPARATORS == {" ", "_", "-", "."}

is_uppercase(c) == \E k \in DOMAIN UpperLetters : UpperLetters[k] = c
is_lowercase(c) == \E k \in DOMAIN LowerLetters : LowerLetters[k] = c

\* the loop of split_into_words: the rest of the input, the words so far,
\* the current word and prev_was_lowercase
RECURSIVE SplitWords(_, _, _, _)
SplitWords(rest, words, current_word, prev_was_lowercase) ==
    IF rest = <<>>
    THEN IF current_word # <<>> THEN Append(words, current_word) ELSE words
    ELSE LET c == Head(rest)
         IN IF c \in WORD_SEPARATORS
            THEN SplitWords(Tail(rest),
                            IF current_word # <<>> THEN Append(words, current_word) ELSE words,
                            <<>>, FALSE)
            ELSE IF is_uppercase(c) /\ prev_was_lowercase /\ current_word # <<>>
            THEN SplitWords(Tail(rest), Append(words, current_word), <<c>>, is_lowercase(c))
            ELSE SplitWords(Tail(rest), words, Append(current_word, c), is_lowercase(c))

split_into_words(s) == IF s = <<>> THEN <<>> ELSE SplitWords(s, <<>>, <<>>, FALSE)

capitalize_word(word) ==
    IF word = <<>> THEN <<>>
    ELSE <<CharUpper(Head(word))>> \o to_lowercase(Tail(word))

\* Vec<String>::join(sep) and the plain concatenation of collect()
RECURSIVE join(_, _)
join(words, sep) ==
    IF words = <<>> THEN <<>>
    ELSE IF Len(words) = 1 THEN words[1]
    ELSE words[1] \o sep \o join(Tail(words), sep)

CaseStyle ==
    {"none", "lowercase", "uppercase", "capitalize", "title-case", "kebab-case",
     "snake_case", "camelCase", "PascalCase"}

\* the arms of normalize_case on the words of the name
NormalizeWords(words, style) ==
    CASE style = "lowercase" -> join([k \in DOMAIN words |-> to_lowercase(words[k])], << " " >>)
      [] style = "uppercase" -> join([k \in DOMAIN words |-> to_uppercase(words[k])], << " " >>)
      [] style = "capitalize" ->
            IF words = <<>> THEN <<>>
            ELSE IF Len(words) = 1 THEN capitalize_word(words[1])
            ELSE capitalize_word(words[1]) \o << " " >>
                 \o join([k \in DOMAIN Tail(words) |-> to_lowercase(Tail(words)[k])], << " " >>)
      [] style = "title-case" ->
            join([k \in DOMAIN words |-> capitalize_word(words[k])], << " " >>)
      [] style = "kebab-case" ->
            join([k \in DOMAIN words |-> to_lowercase(words[k])], <<"-">>)
      [] style = "snake_case" ->
            join([k \in DOMAIN words |-> to_lowercase(words[k])], <<"_">>)
      [] style = "camelCase" ->
            join([k \in DOMAIN words |->
                    IF k = 1 THEN to_lowercase(words[k]) ELSE capitalize_word(words[k])], <<>>)
      [] style = "PascalCase" ->
            join([k \in DOMAIN words |-> capitalize_word(words[k])], <<>>)

normalize_case(name, style) ==
    IF style = "none" \/ name = <<>> THEN name
    ELSE NormalizeWords(split_into_words(name), style)

\* a variant of the split that leaves the case of the extension alone
NormalizeSplitKeepExt(prefix, working_name, pos, style) ==
    IF pos <= 1 THEN prefix \o normalize_case(working_name, style)
    ELSE prefix \o normalize_case(SubSeq(working_name, 1, pos - 1), style)
                \o Drop(working_name, pos - 1)

\* the name/extension split of normalize_filename at the last dot of
\* working_name, normalised and put together again
NormalizeSplit(prefix, working_name, pos, style) ==
    IF pos <= 1 THEN prefix \o normalize_case(working_name, style)
    ELSE prefix \o normalize_case(SubSeq(working_name, 1, pos - 1), style)
                \o to_lowercase(Drop(working_name, pos - 1))

NormalizeWorking(prefix, working_name, style) ==
    NormalizeSplit(prefix, working_name, rfind(working_name, "."), style)

normalize_filename(filename, style) ==
    IF style = "none" \/ filename = <<>> THEN filename
    ELSE IF starts_with(filename, <<".">>)
    THEN NormalizeWorking(<<".">>, Tail(filename), style)
    ELSE NormalizeWorking(<<>>, filename, style)

(***************************************************************************)
(* Scanner: FileInfo of a directory entry                                  *)
(***************************************************************************)
\* Path::file_stem and Path::extension of a file name
file_stem(file_name) ==
    LET pos == rfind(file_name, ".")
    IN IF pos <= 1 THEN file_name ELSE SubSeq(file_name, 1, pos - 1)
extension(file_name) ==
    LET pos == rfind(file_name, ".")
    IN IF pos <= 1 THEN <<>> ELSE Drop(file_name, pos)

\* the FileInfo scan_folder pushes for the entry `file_name` of directory `dir`
FileInfo(dir, file_name, modified_at, category) ==
    [path |-> dir \o <<"/">> \o file_name,
     name |-> file_stem(file_name),
     extension |-> extension(file_name),
     full_name |-> file_name,
     modified_at |-> modified_at,
     category |-> category]

(***************************************************************************)
(* Template Expander: format_date, apply_template                          *)
(***************************************************************************)
\* DateTime::format for the specifiers format_date produces
ChronoFormat(date, chrono_format) ==
    LET r1 == replace(chrono_format, <<"%", "Y">>, date.year)
        r2 == replace(r1, <<"%", "m">>, date.month)
        r3 == replace(r2, <<"%", "d">>, date.day)
        r4 == replace(r3, <<"%", "H">>, date.hour)
        r5 == replace(r4, <<"%", "M">>, date.minute)
    IN replace(r5, <<"%", "S">>, date.second)

format_date(date, format) ==
    LET f1 == replace(format, <<"Y", "Y", "Y", "Y">>, <<"%", "Y">>)
        f2 == replace(f1, <<"M", "M">>, <<"%", "m">>)
        f3 == replace(f2, <<"D", "D">>, <<"%", "d">>)
        f4 == replace(f3, <<"H", "H">>, <<"%", "H">>)
        f5 == replace(f4, <<"m", "m">>, <<"%", "M">>)
        f6 == replace(f5, <<"s", "s">>, <<"%", "S">>)
    IN ChronoFormat(date, f6)

\* captures_iter of \{date:([^}]+)\}: the matches, leftmost first, each as
\* <<whole match, captured format>>
RECURSIVE DateCaptures(_)
DateCaptures(s) ==
    LET open == <<"{", "d", "a", "t", "e", ":">>
        starts == {k \in 1..Len(s) :
                     /\ k + Len(open) <= Len(s)
                     /\ SubSeq(s, k, k + Len(open) - 1) = open
                     /\ s[k + Len(open)] # "}"
                     /\ \E e \in (k + Len(open) + 1)..Len(s) : s[e] = "}"}
        k == CHOOSE x \in starts : \A y \in starts : x <= y
        closes == {e \in (k + Len(open) + 1)..Len(s) : s[e] = "}"}
        e == CHOOSE x \in closes : \A y \in closes : x <= y
    IN IF starts = {} THEN <<>>
       ELSE <<<<SubSeq(s, k, e), SubSeq(s, k + Len(open), e - 1)>>>> \o DateCaptures(Drop(s, e))

RECURSIVE ReplaceCaptures(_, _, _)
ReplaceCaptures(new_result, caps, date) ==
    IF caps = <<>> THEN new_result
    ELSE ReplaceCaptures(replace(new_result, Head(caps)[1], format_date(date, Head(caps)[2])),
                         Tail(caps), date)

\* the (result, sources) pair apply_template carries from step to step
PushSource(sources, tag) ==
    IF \E k \in DOMAIN sources : sources[k] = tag THEN sources ELSE Append(sources, tag)

\* {name} and {original}
ReplaceName(st, name_to_use) ==
    IF contains(st.result, <<"{", "n", "a", "m", "e", "}">>) \/ contains(st.result, <<"{", "o", "r", "i", "g", "i", "n", "a", "l", "}">>)
    THEN [result |-> replace(replace(st.result, <<"{", "n", "a", "m", "e", "}">>, name_to_use),
                             <<"{", "o", "r", "i", "g", "i", "n", "a", "l", "}">>, name_to_use),
          sources |-> Append(st.sources, "filename")]
    ELSE st

\* {ext}
ReplaceExt(st, file) ==
    IF contains(st.result, <<"{", "e", "x", "t", "}">>)
    THEN [st EXCEPT !.result = replace(@, <<"{", "e", "x", "t", "}">>, file.extension)]
    ELSE st

\* {date}
ReplaceDate(st, file, date_format) ==
    IF contains(st.result, <<"{", "d", "a", "t", "e", "}">>)
    THEN [result |-> replace(st.result, <<"{", "d", "a", "t", "e", "}">>, format_date(file.modified_at, date_format)),
          sources |-> Append(st.sources, "file-date")]
    ELSE st

\* {date:FORMAT}
ReplaceDateFormats(st, file, caps) ==
    [result |-> ReplaceCaptures(st.result, caps, file.modified_at),
     sources |-> IF caps # <<>> THEN PushSource(st.sources, "file-date") ELSE st.sources]

ReplaceDateCaptures(st, file) == ReplaceDateFormats(st, file, DateCaptures(st.result))

\* {year}, {month}, {day}
ReplaceYear(st, file) ==
    IF contains(st.result, <<"{", "y", "e", "a", "r", "}">>)
    THEN [result |-> replace(st.result, <<"{", "y", "e", "a", "r", "}">>, file.modified_at.year),
          sources |-> PushSource(st.sources, "file-date")]
    ELSE st

ReplaceMonth(st, file) ==
    IF contains(st.result, <<"{", "m", "o", "n", "t", "h", "}">>)
    THEN [st EXCEPT !.result = replace(@, <<"{", "m", "o", "n", "t", "h", "}">>, file.modified_at.month)]
    ELSE st

ReplaceDay(st, file) ==
    IF contains(st.result, <<"{", "d", "a", "y", "}">>)
    THEN [st EXCEPT !.result = replace(@, <<"{", "d", "a", "y", "}">>, file.modified_at.day)]
    ELSE st

\* the extension is added when there is none, a different one is left alone
EnsureExtensionAppended(st, file) ==
    IF ~contains(st.result, <<".">>) /\ file.extension # <<>>
    THEN [st EXCEPT !.result = @ \o <<".">> \o file.extension]
    ELSE st

\* the extension is added, or put in place of a different one
EnsureExtension(st, file) ==
    IF ~contains(st.result, <<".">>) /\ file.extension # <<>>
    THEN [st EXCEPT !.result = @ \o <<".">> \o file.extension]
    ELSE IF ~ends_with(st.result, <<".">> \o file.extension) /\ file.extension # <<>>
    THEN (IF rfind(st.result, ".") > 0
          THEN [st EXCEPT !.result = SubSeq(@, 1, rfind(@, ".") - 1)
                                     \o <<".">> \o file.extension]
          ELSE st)
    ELSE st

\* the sanitized name and the sources, as the pair apply_template returns
SanitizeTemplated(st) == <<sanitize_filename(st.result, "_").sanitized, st.sources>>

apply_template(file, pattern, date_format, strip_existing_patterns) ==
    SanitizeTemplated(EnsureExtension(ReplaceDay(ReplaceMonth(ReplaceYear(
        ReplaceDateCaptures(
            ReplaceDate(
                ReplaceExt(
                    ReplaceName([result |-> pattern, sources |-> <<>>],
                                IF strip_existing_patterns THEN clean_filename(file.name)
                                ELSE file.name),
                    file),
                file, date_format),
            file),
        file), file), file), file))

(***************************************************************************)
(* Option<T>: None is the empty sequence, Some(x) the one-element sequence *)
(***************************************************************************)
None == <<>>
Some(x) == <<x>>
is_some(o) == o # <<>>
unwrap(o) == o[1]

(***************************************************************************)
(* Paths and the filesystem                                                *)
(*   disk : canonical path of a regular file -> its content                *)
(*   dirs : canonical paths of the directories                             *)
(***************************************************************************)
\* the components of a path string, empty ones dropped (Path::components)
RECURSIVE components(_)
components(p) ==
    LET slashes == {k \in DOMAIN p : p[k] = "/"}
        first == CHOOSE k \in slashes : \A j \in slashes : k <= j
    IN IF slashes = {} THEN (IF p = <<>> THEN <<>> ELSE <<p>>)
       ELSE (IF first = 1 THEN <<>> ELSE <<SubSeq(p, 1, first - 1)>>)
            \o components(Drop(p, first))

\* Path::parent as a string: everything before the last component
parent(p) ==
    LET q == trim_end_matches(p, {"/"})
        pos == rfind(q, "/")
    IN IF pos <= 1 THEN Take(q, pos) ELSE trim_end_matches(SubSeq(q, 1, pos - 1), {"/"})

Root == <<"/">>
child(dir, seg) == IF dir = Root THEN dir \o seg ELSE dir \o <<"/">> \o seg

\* the directory the kernel reaches by walking `segs` from `cur`, every
\* directory on the way having to exist; <<>> when the walk fails (ENOENT)
RECURSIVE walk(_, _, _)
walk(segs, cur, ds) ==
    IF cur \notin ds THEN <<>>
    ELSE IF segs = <<>> THEN cur
    ELSE IF Head(segs) = <<".">> THEN walk(Tail(segs), cur, ds)
    ELSE IF Head(segs) = <<".", ".">> THEN walk(Tail(segs), parent(cur), ds)
    ELSE walk(Tail(segs), child(cur, Head(segs)), ds)

\* the canonical path a path string names, <<>> when its directory does not
\* resolve
resolve(p, ds) ==
    LET segs == components(p)
        dir == walk(SubSeq(segs, 1, Len(segs) - 1), Root, ds)
    IN IF segs = <<>> THEN Root
       ELSE IF dir = <<>> THEN <<>>
       ELSE child(dir, segs[Len(segs)])

\* Path::exists
exists(p, dk, ds) ==
    LET c == resolve(p, ds) IN c # <<>> /\ (c \in DOMAIN dk \/ c \in ds)

\* fs::create_dir_all: creates the missing directories of `p` from the top;
\* a component fails when a regular file has its name. Returns the directories afterwards and whether it succeeded.
RECURSIVE mkdirs(_, _, _, _)
mkdirs(segs, cur, dk, ds) ==
    IF segs = <<>> THEN [ok |-> TRUE, dirs |-> ds]
    ELSE IF Head(segs) = <<".">> THEN mkdirs(Tail(segs), cur, dk, ds)
    ELSE IF Head(segs) = <<".", ".">> THEN mkdirs(Tail(segs), parent(cur), dk, ds)
    ELSE LET next == child(cur, Head(segs))
         IN IF next \in ds THEN mkdirs(Tail(segs), next, dk, ds)
            ELSE IF next \in DOMAIN dk THEN [ok |-> FALSE, dirs |-> ds]
            ELSE mkdirs(Tail(segs), next, dk, ds \cup {next})

create_dir_all(p, dk, ds) == mkdirs(components(p), Root, dk, ds)

\* fs::rename(from, to): fails when the source is no file, the destination
\* directory does not exist or a directory is at the destination; otherwise
\* moves the file, replacing a file at the destination. Returns the disk
\* afterwards and whether it succeeded.
rename(from, to, dk, ds) ==
    LET src == resolve(from, ds)
        dst == resolve(to, ds)
        ok == /\ src # <<>> /\ src \in DOMAIN dk
              /\ dst # <<>> /\ dst \notin ds
    IN [ok |-> ok,
        disk |-> IF ok /\ src # dst
                 THEN [q \in (DOMAIN dk \ {src}) \cup {dst} |->
                          IF q = dst THEN dk[src] ELSE dk[q]]
                 ELSE dk]

(***************************************************************************)
(* Folder Pattern Resolver                                                 *)
(***************************************************************************)
category_str(category) ==
    CASE category = "Image" -> <<"I", "m", "a", "g", "e", "s">>
      [] category = "Document" -> <<"D", "o", "c", "u", "m", "e", "n", "t", "s">>
      [] category = "Video" -> <<"V", "i", "d", "e", "o", "s">>
      [] category = "Audio" -> <<"A", "u", "d", "i", "o">>
      [] category = "Archive" -> <<"A", "r", "c", "h", "i", "v", "e", "s">>
      [] category = "Code" -> <<"C", "o", "d", "e">>
      [] category = "Data" -> <<"D", "a", "t", "a">>
      [] category = "Other" -> <<"O", "t", "h", "e", "r">>

RECURSIVE CollapseSlashes(_)
CollapseSlashes(s) ==
    IF contains(s, <<"/", "/">>) THEN CollapseSlashes(replace(s, <<"/", "/">>, <<"/">>)) ELSE s

apply_folder_pattern(file, pattern) ==
    LET r1 == replace(pattern, <<"{", "y", "e", "a", "r", "}">>, file.modified_at.year)
        r2 == replace(r1, <<"{", "m", "o", "n", "t", "h", "}">>, file.modified_at.month)
        r3 == replace(r2, <<"{", "d", "a", "y", "}">>, file.modified_at.day)
        r4 == replace(r3, <<"{", "c", "a", "t", "e", "g", "o", "r", "y", "}">>, category_str(file.category))
        r5 == replace(r4, <<"{", "e", "x", "t", "e", "n", "s", "i", "o", "n", "}">>, file.extension)
        r6 == replace(r5, <<"{", "e", "x", "t", "}">>, file.extension)
        r7 == replace(r6, <<"\\">>, <<"/">>)
    IN CollapseSlashes(trim_matches(r7, {"/"}))

(***************************************************************************)
(* Preview Assembler and Conflict Detector: generate_preview               *)
(***************************************************************************)
RenameStatus == {"Ready", "Conflict", "MissingData", "NoChange", "InvalidName"}

\* a variant that reports the mode the options declare, whatever the legacy
\* folder pattern
ReorgSettingsDeclared(options) ==
    [reorg_mode |-> options.reorganization_mode,
     folder_pattern |-> IF options.reorganization_mode = "organize"
                           /\ is_some(options.organize_options)
                        THEN Some(unwrap(options.organize_options).folder_pattern)
                        ELSE options.folder_pattern,
     base_directory |-> IF options.reorganization_mode = "organize"
                           /\ is_some(options.organize_options)
                        THEN unwrap(options.organize_options).destination_directory
                        ELSE options.base_directory]

\* (reorg_mode, folder_pattern, base_directory) from the new and legacy options
ReorgSettings(options) ==
    IF options.reorganization_mode = "organize"
    THEN IF is_some(options.organize_options)
         THEN [reorg_mode |-> "organize",
               folder_pattern |-> Some(unwrap(options.organize_options).folder_pattern),
               base_directory |-> unwrap(options.organize_options).destination_directory]
         ELSE [reorg_mode |-> IF is_some(options.folder_pattern) THEN "organize" ELSE "rename-only",
               folder_pattern |-> options.folder_pattern,
               base_directory |-> options.base_directory]
    ELSE IF is_some(options.folder_pattern)
         THEN [reorg_mode |-> "organize",
               folder_pattern |-> options.folder_pattern,
               base_directory |-> options.base_directory]
         ELSE [reorg_mode |-> "rename-only", folder_pattern |-> None, base_directory |-> None]

\* (dest_dir, is_folder_move, destination_folder) of one file
MoveTo(full_dest, source_dir, folder_path) ==
    [dest_dir |-> full_dest, is_folder_move |-> full_dest # source_dir,
     destination_folder |-> IF full_dest # source_dir THEN Some(folder_path) ELSE None]

DestinationIn(source_dir, base_directory, folder_path) ==
    MoveTo(IF is_some(base_directory)
           THEN trim_end_matches(unwrap(base_directory), {"/"}) \o <<"/">> \o folder_path
           ELSE IF source_dir = <<>> THEN folder_path
           ELSE trim_end_matches(source_dir, {"/"}) \o <<"/">> \o folder_path,
           source_dir, folder_path)

Destination(file, settings) ==
    IF settings.reorg_mode = "organize" /\ is_some(settings.folder_pattern)
    THEN DestinationIn(parent(file.path), settings.base_directory,
                       apply_folder_pattern(file, unwrap(settings.folder_pattern)))
    ELSE [dest_dir |-> parent(file.path), is_folder_move |-> FALSE,
          destination_folder |-> None]

RenameIssue(code) == [code |-> code, field |-> None]

\* First pass: the proposal pushed for one file, with the no-change and
\* validity checks, from its generated name and its destination
Proposal(file, id, proposed_name, metadata_sources, dest) ==
    [id |-> id,
     original_path |-> file.path,
     original_name |-> file.full_name,
     proposed_name |-> proposed_name,
     proposed_path |-> IF dest.dest_dir = <<>> THEN proposed_name
                       ELSE dest.dest_dir \o <<"/">> \o proposed_name,
     status |-> IF ~is_valid_filename(proposed_name) THEN "InvalidName"
                ELSE IF proposed_name = file.full_name /\ ~dest.is_folder_move THEN "NoChange"
                ELSE "Ready",
     issues |-> IF ~is_valid_filename(proposed_name)
                THEN <<RenameIssue("INVALID_NAME")>> ELSE <<>>,
     metadata_sources |-> IF metadata_sources = <<>> THEN None ELSE Some(metadata_sources),
     is_folder_move |-> dest.is_folder_move,
     destination_folder |-> dest.destination_folder,
     action_type |-> IF ~is_valid_filename(proposed_name) THEN "Error"
                     ELSE IF proposed_name = file.full_name /\ ~dest.is_folder_move
                     THEN "NoChange"
                     ELSE IF dest.is_folder_move THEN "Move" ELSE "Rename",
     conflict |-> None]

ProposeTo(file, id, templated, case_style, dest) ==
    Proposal(file, id, normalize_filename(templated[1], case_style), templated[2], dest)

Propose(file, id, template_pattern, options) ==
    ProposeTo(file, id,
              apply_template(file, template_pattern,
                             IF is_some(options.date_format) THEN unwrap(options.date_format)
                             ELSE <<"Y", "Y", "Y", "Y", "-", "M", "M", "-", "D", "D">>,
                             options.strip_existing_patterns),
              options.case_style,
              Destination(file, ReorgSettings(options)))

FirstPass(files, template_pattern, options) ==
    [k \in DOMAIN files |-> Propose(files[k], k, template_pattern, options)]

\* a variant of path_key that keeps the case of the proposed path
path_key_exact(proposal) == proposal.proposed_path

\* proposed_paths[path_key]: the ids of the proposals with that lowercased
\* proposed path, in the order they were pushed
path_key(proposal) == to_lowercase(proposal.proposed_path)
IdsWithKey(proposals, key) ==
    SelectSeq([k \in DOMAIN proposals |-> k], LAMBDA k : path_key(proposals[k]) = key)

\* a variant of the second pass that sets the status and leaves action_type
BatchPassStatusOnly(proposals) ==
    [k \in DOMAIN proposals |->
        LET proposal == proposals[k]
            ids == IdsWithKey(proposals, path_key(proposal))
            idx == CHOOSE i \in DOMAIN ids : ids[i] = k
        IN IF Len(ids) > 1 /\ proposal.status = "Ready"
           THEN [proposal EXCEPT
                   !.status = "Conflict",
                   !.issues = Append(@, RenameIssue("DUPLICATE_NAME")),
                   !.conflict = Some([conflict_type |-> "duplicate-name",
                                      conflicting_file_id |->
                                          IF idx > 1 THEN Some(proposals[ids[1]].id)
                                          ELSE Some(proposals[ids[2]].id),
                                      existing_file_path |-> None])]
           ELSE proposal]

\* a variant of the second pass that always references the first id
BatchPassFirstId(proposals) ==
    [k \in DOMAIN proposals |->
        LET proposal == proposals[k]
            ids == IdsWithKey(proposals, path_key(proposal))
        IN IF Len(ids) > 1 /\ proposal.status = "Ready"
           THEN [proposal EXCEPT
                   !.status = "Conflict",
                   !.action_type = "Conflict",
                   !.issues = Append(@, RenameIssue("DUPLICATE_NAME")),
                   !.conflict = Some([conflict_type |-> "duplicate-name",
                                      conflicting_file_id |-> Some(proposals[ids[1]].id),
                                      existing_file_path |-> None])]
           ELSE proposal]

\* Second pass: duplicate destinations within the batch
BatchPass(proposals) ==
    [k \in DOMAIN proposals |->
        LET proposal == proposals[k]
            ids == IdsWithKey(proposals, path_key(proposal))
            idx == CHOOSE i \in DOMAIN ids : ids[i] = k
        IN IF Len(ids) > 1 /\ proposal.status = "Ready"
           THEN [proposal EXCEPT
                   !.status = "Conflict",
                   !.action_type = "Conflict",
                   !.issues = Append(@, RenameIssue("DUPLICATE_NAME")),
                   !.conflict = Some([conflict_type |-> "duplicate-name",
                                      conflicting_file_id |->
                                          IF idx > 1 THEN Some(proposals[ids[1]].id)
                                          ELSE Some(proposals[ids[2]].id),
                                      existing_file_path |-> None])]
           ELSE proposal]

\* a variant of the third pass that never looks at the disk
FilesystemPassSkipped(proposals, dk, ds) == proposals

\* a variant of the third pass that looks at every proposal, Ready or not
FilesystemPassAnyStatus(proposals, dk, ds) ==
    [k \in DOMAIN proposals |->
        LET proposal == proposals[k]
        IN IF /\ exists(proposal.proposed_path, dk, ds)
              /\ proposal.proposed_path # proposal.original_path
           THEN [proposal EXCEPT
                   !.status = "Conflict",
                   !.action_type = "Conflict",
                   !.issues = Append(@, RenameIssue("FILE_EXISTS")),
                   !.conflict = Some([conflict_type |-> "file-exists",
                                      conflicting_file_id |-> None,
                                      existing_file_path |-> Some(proposal.proposed_path)])]
           ELSE proposal]

\* Third pass: the target exists on disk and is not the source itself
FilesystemPass(proposals, dk, ds) ==
    [k \in DOMAIN proposals |->
        LET proposal == proposals[k]
        IN IF /\ proposal.status = "Ready"
              /\ exists(proposal.proposed_path, dk, ds)
              /\ proposal.proposed_path # proposal.original_path
           THEN [proposal EXCEPT
                   !.status = "Conflict",
                   !.action_type = "Conflict",
                   !.issues = Append(@, RenameIssue("FILE_EXISTS")),
                   !.conflict = Some([conflict_type |-> "file-exists",
                                      conflicting_file_id |-> None,
                                      existing_file_path |-> Some(proposal.proposed_path)])]
           ELSE proposal]

CountStatus(proposals, status) ==
    Cardinality({k \in DOMAIN proposals : proposals[k].status = status})

\* a summary that leaves the unchanged files out
PreviewSummaryChanged(proposals) ==
    [total |-> Len(proposals),
     ready |-> CountStatus(proposals, "Ready"),
     conflicts |-> CountStatus(proposals, "Conflict"),
     missing_data |-> CountStatus(proposals, "MissingData"),
     no_change |-> 0,
     invalid_name |-> CountStatus(proposals, "InvalidName")]

PreviewSummary(proposals) ==
    [total |-> Len(proposals),
     ready |-> CountStatus(proposals, "Ready"),
     conflicts |-> CountStatus(proposals, "Conflict"),
     missing_data |-> CountStatus(proposals, "MissingData"),
     no_change |-> CountStatus(proposals, "NoChange"),
     invalid_name |-> CountStatus(proposals, "InvalidName")]

CountAction(proposals, action_type) ==
    Cardinality({k \in DOMAIN proposals : proposals[k].action_type = action_type})

PreviewActionSummary(proposals) ==
    [rename_count |-> CountAction(proposals, "Rename"),
     move_count |-> CountAction(proposals, "Move"),
     no_change_count |-> CountAction(proposals, "NoChange"),
     conflict_count |-> CountAction(proposals, "Conflict"),
     error_count |-> CountAction(proposals, "Error")]

generate_preview(files, template_pattern, options, dk, ds) ==
    LET proposals == FilesystemPass(BatchPass(FirstPass(files, template_pattern, options)),
                                    dk, ds)
    IN [proposals |-> proposals,
        summary |-> PreviewSummary(proposals),
        template_used |-> template_pattern,
        action_summary |-> PreviewActionSummary(proposals),
        reorganization_mode |-> ReorgSettings(options).reorg_mode]

(***************************************************************************)
(* Rename Executor: one iteration of the loop of execute_rename, and the   *)
(* result it returns after the loop                                        *)
(***************************************************************************)
\* a variant of FileRenameResult that reports where the file is now
FileRenameResultMoved(proposal, new_path, new_name, outcome, error) ==
    [proposal_id |-> proposal.id,
     original_path |-> IF is_some(new_path) THEN unwrap(new_path) ELSE proposal.original_path,
     original_name |-> proposal.original_name,
     new_path |-> new_path,
     new_name |-> new_name,
     outcome |-> outcome,
     error |-> error]

FileRenameResult(proposal, new_path, new_name, outcome, error) ==
    [proposal_id |-> proposal.id,
     original_path |-> proposal.original_path,
     original_name |-> proposal.original_name,
     new_path |-> new_path,
     new_name |-> new_name,
     outcome |-> outcome,
     error |-> error]

\* a variant of should_process that ignores the selection
should_process_all(proposal, selected_ids) == TRUE

\* the iteration touches the filesystem only past the three skip checks
should_process(proposal, selected_ids) ==
    IF is_some(selected_ids) THEN proposal.id \in unwrap(selected_ids) ELSE TRUE

Skipped(proposal, reason, dk, ds) ==
    [result |-> FileRenameResult(proposal, None, None, "Skipped", Some(reason)),
     disk |-> dk, dirs |-> ds]

\* a variant whose Failed result still names the path it tried
RenameOutcomeTried(proposal, dk, ds, moved) ==
    IF moved.ok
    THEN [result |-> FileRenameResult(proposal, Some(proposal.proposed_path),
                                      Some(proposal.proposed_name), "Success", None),
          disk |-> moved.disk, dirs |-> ds]
    ELSE [result |-> FileRenameResult(proposal, Some(proposal.proposed_path),
                                      Some(proposal.proposed_name), "Failed",
                                      Some("rename failed")),
          disk |-> dk, dirs |-> ds]

\* fs::rename and the result pushed for its outcome
RenameOutcome(proposal, dk, ds, moved) ==
    IF moved.ok
    THEN [result |-> FileRenameResult(proposal, Some(proposal.proposed_path),
                                      Some(proposal.proposed_name), "Success", None),
          disk |-> moved.disk, dirs |-> ds]
    ELSE [result |-> FileRenameResult(proposal, None, None, "Failed", Some("rename failed")),
          disk |-> dk, dirs |-> ds]

\* the destination directory was created, or was not needed, or failed
RenameAfterDir(proposal, dk, made) ==
    IF ~made.ok
    THEN [result |-> FileRenameResult(proposal, None, None, "Failed",
                                      Some("Failed to create directory")),
          disk |-> dk, dirs |-> made.dirs]
    ELSE RenameOutcome(proposal, dk, made.dirs,
                       rename(proposal.original_path, proposal.proposed_path, dk, made.dirs))

\* the result pushed for `proposal` and the filesystem after the iteration
execute_one(proposal, selected_ids, dk, ds) ==
    IF ~should_process(proposal, selected_ids) THEN Skipped(proposal, "Not selected", dk, ds)
    ELSE IF proposal.status # "Ready"
    THEN Skipped(proposal, "Status: " \o proposal.status, dk, ds)
    ELSE IF proposal.original_name = proposal.proposed_name /\ ~proposal.is_folder_move
    THEN Skipped(proposal, "No change needed", dk, ds)
    ELSE IF proposal.is_folder_move /\ ~exists(parent(proposal.proposed_path), dk, ds)
    THEN RenameAfterDir(proposal, dk, create_dir_all(parent(proposal.proposed_path), dk, ds))
    ELSE RenameAfterDir(proposal, dk, [ok |-> TRUE, dirs |-> ds])

CountOutcome(results, outcome) ==
    Cardinality({k \in DOMAIN results : results[k].outcome = outcome})

BatchRenameSummary(results) ==
    [total |-> Len(results),
     succeeded |-> CountOutcome(results, "Success"),
     failed |-> CountOutcome(results, "Failed"),
     skipped |-> CountOutcome(results, "Skipped")]

\* a result that reports success only when every proposal was renamed
BatchRenameResultStrict(results) ==
    [success |-> BatchRenameSummary(results).succeeded = Len(results),
     results |-> results,
     summary |-> BatchRenameSummary(results)]

BatchRenameResult(results) ==
    [success |-> BatchRenameSummary(results).failed = 0,
     results |-> results,
     summary |-> BatchRenameSummary(results)]

(***************************************************************************)
(* Bounded inputs of the Pattern Stripper                                  *)
(***************************************************************************)
MaxTokens == 3

StemTokens ==
    {<<"2", "0", "2", "4", "-", "0", "7", "-", "1", "5">>,
     <<"2", "0", "2", "4", "0", "7", "1", "5">>,
     <<"1", "5", "-", "0", "7", "-", "2", "0", "2", "4">>,
     <<"a">>, <<"_">>, <<"-">>, <<"1">>, <<"(", "3", ")">>}

RECURSIVE TokenStrings(_)
TokenStrings(n) ==
    IF n = 0 THEN {<<>>}
    ELSE LET shorter == TokenStrings(n - 1)
         IN shorter \cup {t \o s : t \in StemTokens, s \in shorter}

Stems == TokenStrings(MaxTokens) \ {<<>>}

(***************************************************************************)
(* SpecClean: clean_filename applied to a stem, then to its own result     *)
(***************************************************************************)
InitClean ==
    /\ MainIdle
    /\ input \in [fn : {"clean_filename"}, name : Stems]
    /\ outputs = <<>>

CleanOnce ==
    /\ input.fn = "clean_filename"
    /\ outputs = <<>>
    /\ outputs' = <<clean_filename(input.name)>>
    /\ UNCHANGED <<input, mainVars, historyVars>>

CleanAgain ==
    /\ input.fn = "clean_filename"
    /\ Len(outputs) = 1
    /\ outputs' = Append(outputs, clean_filename(outputs[1]))
    /\ UNCHANGED <<input, mainVars, historyVars>>

NextClean == CleanOnce \/ CleanAgain

SpecClean == InitClean /\ [][NextClean]_vars

\* C9: clean_filename(clean_filename(x)) = clean_filename(x) for every stem x
C9_CleanIdempotent ==
    (input.fn = "clean_filename" /\ Len(outputs) = 2) => outputs[2] = outputs[1]

\* what is left of the input of clean_filename once the patterns are removed
\* and the separators trimmed
C11_Remainder ==
    trim_matches(StripPatterns(StripPatterns(input.name, DATE_PATTERNS), COUNTER_PATTERNS),
                 Separator)

\* C11: for every non-empty input clean_filename returns a non-empty string
\* (also when it is applied to its own result), and it returns the input
\* unchanged whenever removing the patterns and trimming the separators
\* leaves nothing.
C11_NeverEmptyStem ==
    (input.fn = "clean_filename" /\ input.name # <<>>) =>
        /\ \A k \in DOMAIN outputs : outputs[k] # <<>>
        /\ (Len(outputs) >= 1 /\ C11_Remainder = <<>>) => outputs[1] = input.name

\* a stem made of a date and a counter only, returned as it was
C11_Witness ==
    /\ input.fn = "clean_filename"
    /\ Len(outputs) >= 1
    /\ Len(input.name) > 10
    /\ C11_Remainder = <<>>
    /\ outputs[1] = input.name

(***************************************************************************)
(* SpecSanitize: sanitize_filename(filename, '_') on bounded inputs        *)
(***************************************************************************)
MaxSanTokens == 4
MaxOver == 2

SanTokens == {<<"C", "O", "N">>, <<"a">>, <<".">>, <<" ">>, <<":">>, <<"_">>}

RECURSIVE SanStrings(_)
SanStrings(n) ==
    IF n = 0 THEN {<<>>}
    ELSE LET shorter == SanStrings(n - 1)
         IN shorter \cup {t \o s : t \in SanTokens, s \in shorter}

Repeat(c, n) == [k \in 1..n |-> c]

\* names around the length limit: long stems, with and without an extension,
\* of one-byte and of two-byte characters, and an over-long extension
LongNames ==
    {Repeat(c, n) \o e :
        c \in {"a", WideChar},
        n \in (MAX_FILENAME_LENGTH - 2)..(MAX_FILENAME_LENGTH + MaxOver),
        e \in {<<>>, <<".", "j">>}}
    \cup {<<"a", ".">> \o Repeat("j", n) :
        n \in (MAX_FILENAME_LENGTH - 2)..(MAX_FILENAME_LENGTH + MaxOver)}

SanitizeInputs == SanStrings(MaxSanTokens) \cup LongNames

InitSanitize ==
    /\ MainIdle
    /\ input \in [fn : {"sanitize_filename"}, filename : SanitizeInputs]
    /\ outputs = <<>>

Sanitize ==
    /\ input.fn = "sanitize_filename"
    /\ outputs = <<>>
    /\ outputs' = <<sanitize_filename(input.filename, "_")>>
    /\ UNCHANGED <<input, mainVars, historyVars>>

\* the validity re-check of generate_preview on the sanitized name
Recheck ==
    /\ input.fn = "sanitize_filename"
    /\ Len(outputs) = 1
    /\ outputs' = Append(outputs, is_valid_filename(outputs[1].sanitized))
    /\ UNCHANGED <<input, mainVars, historyVars>>

NextSanitize == Sanitize \/ Recheck

SpecSanitize == InitSanitize /\ [][NextSanitize]_vars

Sanitized == input.fn = "sanitize_filename" /\ Len(outputs) >= 1

\* C8: the output of sanitize_filename(x, '_') contains no invalid character,
\* is at most 255 characters long and is not a bare Windows-reserved name
\* (compared case-insensitively), for every input x
C8_SanitizerInvariant ==
    Sanitized =>
        LET r == outputs[1].sanitized
        IN /\ \A k \in DOMAIN r : r[k] \notin INVALID_CHARS
           /\ Len(r) <= 255
           /\ to_uppercase(r) \notin RESERVED_NAMES

\* the parts of C8 separately
C8_NoInvalidChars ==
    Sanitized => \A k \in DOMAIN outputs[1].sanitized : outputs[1].sanitized[k] \notin INVALID_CHARS
C8_AtMost255 == Sanitized => Len(outputs[1].sanitized) <= 255
C8_NotReserved == Sanitized => to_uppercase(outputs[1].sanitized) \notin RESERVED_NAMES

\* C17: in the result of sanitize_filename, was_modified equals
\* (sanitized # original), and the changes list is empty exactly when
\* was_modified is false.
C17_AuditTrail ==
    Sanitized =>
        /\ outputs[1].was_modified = (outputs[1].sanitized # outputs[1].original)
        /\ (outputs[1].changes = <<>>) = ~outputs[1].was_modified

\* the first half of C17 alone
C17_WasModified ==
    Sanitized =>
        /\ outputs[1].original = input.filename
        /\ outputs[1].was_modified = (outputs[1].sanitized # input.filename)

(***************************************************************************)
(* SpecNormalize: normalize_filename on the names generate_preview gives   *)
(* it, which are results of sanitize_filename, then the validity check     *)
(***************************************************************************)
MaxNormTokens == 4

NormTokens == {<<"a">>, <<"B">>, <<".">>, <<"-">>, <<" ">>, <<"c", "o", "n">>}

RECURSIVE NormStrings(_)
NormStrings(n) ==
    IF n = 0 THEN {<<>>}
    ELSE LET shorter == NormStrings(n - 1)
         IN shorter \cup {t \o s : t \in NormTokens, s \in shorter}

NormalizeInputs == {sanitize_filename(x, "_").sanitized : x \in NormStrings(MaxNormTokens)}

InitNormalize ==
    /\ MainIdle
    /\ input \in [fn : {"normalize_filename"}, filename : NormalizeInputs, style : CaseStyle]
    /\ outputs = <<>>

Normalize ==
    /\ input.fn = "normalize_filename"
    /\ outputs = <<>>
    /\ outputs' = <<normalize_filename(input.filename, input.style)>>
    /\ UNCHANGED <<input, mainVars, historyVars>>

\* the validity check of generate_preview on the normalized name
Revalidate ==
    /\ input.fn = "normalize_filename"
    /\ Len(outputs) = 1
    /\ outputs' = Append(outputs, is_valid_filename(outputs[1]))
    /\ UNCHANGED <<input, mainVars, historyVars>>

NextNormalize == Normalize \/ Revalidate

SpecNormalize == InitNormalize /\ [][NextNormalize]_vars

Normalized == input.fn = "normalize_filename" /\ Len(outputs) >= 1

\* the name part of a filename without the leading dot of a hidden file, and
\* its extension (the text from the last dot)
C18_Stem ==
    IF starts_with(input.filename, <<".">>) THEN Tail(split_filename(input.filename)[1])
    ELSE split_filename(input.filename)[1]
C18_Extension == split_filename(input.filename)[2]

\* C18: with a style other than none, normalize_filename gives the leading
\* dot of a hidden file, then the name part in the style, then the lowercased
\* extension of the input (the text from its last dot); with style none it
\* returns the filename unchanged.
C18_OnlyNamePart ==
    Normalized =>
        IF input.style = "none" THEN outputs[1] = input.filename
        ELSE /\ outputs[1] = (IF starts_with(input.filename, <<".">>) THEN <<".">> ELSE <<>>)
                             \o normalize_case(C18_Stem, input.style)
                             \o to_lowercase(C18_Extension)
             /\ ends_with(outputs[1], to_lowercase(C18_Extension))
             /\ starts_with(input.filename, <<".">>) => starts_with(outputs[1], <<".">>)

\* the filename without the leading dot of a hidden file, and the place of
\* the last dot in it (0 when there is none)
C18_Working ==
    IF starts_with(input.filename, <<".">>) THEN Tail(input.filename) ELSE input.filename
C18_LastDot == rfind(C18_Working, ".")

\* C18 (amended): as C18, with the name part and the extension taken from
\* the filename without the leading dot of a hidden file: the extension is
\* the text from the last dot of that remainder unless the dot is its first
\* character, in which case there is no extension and the whole remainder is
\* the name part (so "..a" is a hidden file named ".a", without extension).
C18_OnlyNamePartAfterDot ==
    Normalized =>
        LET prefix == IF starts_with(input.filename, <<".">>) THEN <<".">> ELSE <<>>
            name == IF C18_LastDot <= 1 THEN C18_Working
                    ELSE SubSeq(C18_Working, 1, C18_LastDot - 1)
            ext == IF C18_LastDot <= 1 THEN <<>>
                   ELSE SubSeq(C18_Working, C18_LastDot, Len(C18_Working))
        IN IF input.style = "none" THEN outputs[1] = input.filename
           ELSE /\ outputs[1] = prefix \o normalize_case(name, input.style) \o to_lowercase(ext)
                /\ ends_with(outputs[1], to_lowercase(ext))
                /\ starts_with(outputs[1], prefix)
                /\ ext # <<>> => ~contains(SubSeq(outputs[1], Len(prefix) + 1,
                                                  Len(outputs[1]) - Len(ext)), <<".">>)

\* a hidden file with an upper-case extension, in a style that changes its
\* name part
C18_Witness ==
    /\ Normalized
    /\ input.style = "uppercase"
    /\ starts_with(input.filename, <<".", "a">>)
    /\ C18_Extension = <<".", "B">>
    /\ starts_with(outputs[1], <<".", "A">>)
    /\ ends_with(outputs[1], <<".", "b">>)

\* C20: a name that passes is_valid_filename still passes it after
\* normalize_filename, under every case style.
C20_NormalizeKeepsValid ==
    (input.fn = "normalize_filename" /\ Len(outputs) = 2 /\ is_valid_filename(input.filename))
        => outputs[2]

(***************************************************************************)
(* SpecTemplate: apply_template on a file, then on the file as renamed     *)
(***************************************************************************)
MaxTemplateTokens == 3

DEFAULT_DATE_FORMAT == <<"Y", "Y", "Y", "Y", "-", "M", "M", "-", "D", "D">>

\* 2024-07-15T10:30:00Z
ModifiedAt ==
    [year |-> <<"2", "0", "2", "4">>, month |-> <<"0", "7">>, day |-> <<"1", "5">>,
     hour |-> <<"1", "0">>, minute |-> <<"3", "0">>, second |-> <<"0", "0">>]

TemplateStemTokens == {<<"2", "0", "2", "4", "-", "0", "7", "-", "1", "5">>, <<"a">>, <<"_", "1">>, <<"(", "3", ")">>}

RECURSIVE TemplateStems(_)
TemplateStems(n) ==
    IF n = 0 THEN {<<>>}
    ELSE LET shorter == TemplateStems(n - 1)
         IN shorter \cup {t \o s : t \in TemplateStemTokens, s \in shorter}

Templates ==
    {<<"{", "d", "a", "t", "e", "}", "_", "{", "n", "a", "m", "e", "}", ".", "{", "e", "x", "t", "}">>, <<"{", "n", "a", "m", "e", "}", "_", "{", "d", "a", "t", "e", "}">>, <<"{", "n", "a", "m", "e", "}", ".", "{", "e", "x", "t", "}">>,
     <<"{", "d", "a", "t", "e", ":", "Y", "Y", "Y", "Y", "M", "M", "D", "D", "}", "-", "{", "o", "r", "i", "g", "i", "n", "a", "l", "}">>, <<"{", "y", "e", "a", "r", "}", "{", "m", "o", "n", "t", "h", "}", "{", "d", "a", "y", "}", " ", "{", "n", "a", "m", "e", "}", ".", "x">>}

Extensions == {<<"j", "p", "g">>, <<>>}

SourceDir == <<"/", "t">>

\* stems that bring the expanded name to the length limit and over it
LongStems == {Repeat("a", n) : n \in {MAX_FILENAME_LENGTH - 4, MAX_FILENAME_LENGTH + 1}}

InitTemplate ==
    /\ MainIdle
    /\ input \in [fn : {"apply_template"},
                  file : {FileInfo(SourceDir, IF e = <<>> THEN n ELSE n \o <<".">> \o e,
                                   ModifiedAt, "Image") :
                            n \in (TemplateStems(MaxTemplateTokens) \ {<<>>}) \cup LongStems,
                            e \in Extensions},
                  pattern : Templates,
                  strip_existing_patterns : BOOLEAN]
    /\ outputs = <<>>

ApplyFirst ==
    /\ input.fn = "apply_template"
    /\ outputs = <<>>
    /\ outputs' = <<apply_template(input.file, input.pattern, DEFAULT_DATE_FORMAT,
                                   input.strip_existing_patterns)[1]>>
    /\ UNCHANGED <<input, mainVars, historyVars>>

\* the same template applied to the file as renamed by the first application
ApplySecond ==
    /\ input.fn = "apply_template"
    /\ Len(outputs) = 1
    /\ outputs[1] # <<>>
    /\ outputs' = Append(outputs,
                         apply_template(FileInfo(SourceDir, outputs[1], ModifiedAt, "Image"),
                                        input.pattern, DEFAULT_DATE_FORMAT,
                                        input.strip_existing_patterns)[1])
    /\ UNCHANGED <<input, mainVars, historyVars>>

NextTemplate == ApplyFirst \/ ApplySecond

SpecTemplate == InitTemplate /\ [][NextTemplate]_vars

\* C10: with stripExistingPatterns = true, applying the same template to the
\* file as renamed by the first application (same modification date) yields
\* the same name again, for every original stem
C10_RetemplateIdempotent ==
    (input.fn = "apply_template" /\ input.strip_existing_patterns /\ Len(outputs) = 2)
        => outputs[2] = outputs[1]

\* the extension of the file the k-th application of the template was given
C12_SourceExtension(k) ==
    IF k = 1 THEN input.file.extension ELSE extension(outputs[k - 1])

\* C12: for a source file with a non-empty extension, the name apply_template
\* returns ends with "." followed by that extension, whatever the pattern:
\* the extension is appended when the expanded pattern has no dot and it
\* replaces a different extension.
C12_ExtensionPreserved ==
    input.fn = "apply_template" =>
        \A k \in DOMAIN outputs :
            C12_SourceExtension(k) # <<>>
            => ends_with(outputs[k], <<".">> \o C12_SourceExtension(k))

\* a pattern that ends in ".x" applied to a .jpg file: the name ends in ".jpg"
C12_Witness ==
    /\ input.fn = "apply_template"
    /\ Len(outputs) >= 1
    /\ input.file.extension = <<"j", "p", "g">>
    /\ ends_with(input.pattern, <<".", "x">>)
    /\ ends_with(outputs[1], <<".", "j", "p", "g">>)
    /\ ~contains(outputs[1], <<".", "x">>)

(***************************************************************************)
(* Spec: the preview/apply flow.  A scanned batch goes through             *)
(* generate_preview; the client may edit the status of one proposal;       *)
(* another program may create a file at a proposed destination or delete   *)
(* a source; execute_rename then runs its loop one proposal at a time.     *)
(***************************************************************************)
MaxFiles == 2

DirR == <<"/", "r">>
DirA == <<"/", "r", "/", "a">>
DirB == <<"/", "r", "/", "b">>
DirC == <<"/", "r", "/", "c">>

\* scanner output for the files of the tree
Entries ==
    {FileInfo(DirA, <<"a", ".", "j", "p", "g">>, ModifiedAt, "Image"),
     FileInfo(DirA, <<"A", ".", "j", "p", "g">>, ModifiedAt, "Image"),
     FileInfo(DirB, <<"a", ".", "j", "p", "g">>, ModifiedAt, "Image"),
     FileInfo(DirA, <<"C", "O", "N", ".", "x", ".", "y">>, ModifiedAt, "Other")}

\* lists of distinct scanned files, at most n long
RECURSIVE FileLists(_)
FileLists(n) ==
    IF n = 0 THEN {<<>>}
    ELSE LET shorter == FileLists(n - 1)
         IN shorter \cup UNION {{Append(l, e) : e \in Entries \ {l[k] : k \in DOMAIN l}} :
                                 l \in shorter}

MainTemplates == {<<"{", "n", "a", "m", "e", "}", ".", "{", "e", "x", "t", "}">>, <<"a", ".", "{", "e", "x", "t", "}">>, <<"{", "n", "a", "m", "e", "}", "_", "x", ".", "{", "e", "x", "t", "}">>}

DefaultOptions ==
    [date_format |-> None, folder_pattern |-> None, base_directory |-> None,
     reorganization_mode |-> "rename-only", organize_options |-> None,
     case_style |-> "none", strip_existing_patterns |-> FALSE]

OptionSets ==
    {DefaultOptions,
     [DefaultOptions EXCEPT !.folder_pattern = Some(<<".", ".", "/", "c">>)],
     [DefaultOptions EXCEPT !.reorganization_mode = "organize",
                            !.organize_options =
                                Some([destination_directory |-> None,
                                      folder_pattern |-> <<"{", "e", "x", "t", "}", "/", "s">>])],
     [DefaultOptions EXCEPT !.reorganization_mode = "organize"]}

\* other things on disk: a file at a likely destination, or a regular file
\* where a destination folder would have to be created
Bystanders == {child(DirA, <<"a", "_", "x", ".", "j", "p", "g">>), child(DirC, <<"a", ".", "j", "p", "g">>), child(DirA, <<"j", "p", "g">>)}

ForeignContent == <<"foreign">>

Init ==
    /\ input = [fn |-> "none"]
    /\ outputs = <<>>
    /\ scanned_files \in FileLists(MaxFiles)
    /\ template \in MainTemplates
    /\ preview_options \in OptionSets
    /\ \E others \in {{}} \cup {{b} : b \in Bystanders} :
          LET paths == {scanned_files[k].path : k \in DOMAIN scanned_files} \cup others
          IN /\ disk = [q \in paths |-> q]
             /\ dirs = {Root, DirR, DirA, DirB}
                       \cup (IF child(DirC, <<"a", ".", "j", "p", "g">>) \in others THEN {DirC} ELSE {})
    /\ preview = None
    /\ client_proposals = <<>>
    /\ selection = None
    /\ rename_results = <<>>
    /\ batch_result = None
    /\ pc = "scanned"
    /\ interference = "none"
    /\ disk0 = <<>>
    /\ HistoryIdle

\* the generate_preview command; the client keeps the proposals it returns
GeneratePreview ==
    /\ pc = "scanned"
    /\ preview' = Some(generate_preview(scanned_files, template, preview_options, disk, dirs))
    /\ client_proposals' = unwrap(preview').proposals
    /\ pc' = "previewed"
    /\ UNCHANGED <<pureVars, historyVars, scanned_files, template, preview_options, disk, dirs,
                   selection, rename_results, batch_result, interference, disk0>>

\* the client changes the status of one proposal before applying: it forces
\* a proposal to Ready or marks it as a conflict
EditedStatus == {"Ready", "Conflict"}

ClientEdit ==
    /\ pc = "previewed"
    /\ interference = "none"
    /\ \E k \in DOMAIN client_proposals, st \in EditedStatus :
          /\ st # client_proposals[k].status
          /\ client_proposals' = [client_proposals EXCEPT ![k].status = st]
    /\ interference' = "edited"
    /\ UNCHANGED <<pureVars, historyVars, scanned_files, template, preview_options, disk, dirs,
                   preview, selection, rename_results, batch_result, pc, disk0>>

\* another program creates a file at the destination of a proposal
ExternalCreate ==
    /\ pc = "previewed"
    /\ interference = "none"
    /\ \E k \in DOMAIN client_proposals :
          LET dst == resolve(client_proposals[k].proposed_path, dirs)
          IN /\ dst # <<>>
             /\ dst \notin DOMAIN disk
             /\ dst \notin dirs
             /\ disk' = [q \in DOMAIN disk \cup {dst} |->
                            IF q = dst THEN ForeignContent ELSE disk[q]]
    /\ interference' = "created"
    /\ UNCHANGED <<pureVars, historyVars, scanned_files, template, preview_options, dirs, preview,
                   client_proposals, selection, rename_results, batch_result, pc, disk0>>

\* another program deletes the source of a proposal
ExternalDelete ==
    /\ pc = "previewed"
    /\ interference = "none"
    /\ \E k \in DOMAIN client_proposals :
          LET src == resolve(client_proposals[k].original_path, dirs)
          IN /\ src \in DOMAIN disk
             /\ disk' = [q \in DOMAIN disk \ {src} |-> disk[q]]
    /\ interference' = "deleted"
    /\ UNCHANGED <<pureVars, historyVars, scanned_files, template, preview_options, dirs, preview,
                   client_proposals, selection, rename_results, batch_result, pc, disk0>>

\* ExecuteRenameOptions.proposal_ids: absent, or all the ids, or none, or all
\* but one
Selections(ids) ==
    {None, Some(ids), Some({})} \cup {Some(ids \ {id}) : id \in ids}

\* execute_rename is called with the client's proposals and a selection
ExecuteStart ==
    /\ pc = "previewed"
    /\ selection' \in Selections({client_proposals[k].id : k \in DOMAIN client_proposals})
    /\ rename_results' = <<>>
    /\ disk0' = disk
    /\ pc' = "executing"
    /\ UNCHANGED <<pureVars, historyVars, scanned_files, template, preview_options, disk, dirs, preview,
                   client_proposals, batch_result, interference>>

\* one iteration of the loop over the proposals, in list order
ExecuteStep ==
    /\ pc = "executing"
    /\ Len(rename_results) < Len(client_proposals)
    /\ LET step == execute_one(client_proposals[Len(rename_results) + 1], selection,
                               disk, dirs)
       IN /\ rename_results' = Append(rename_results, step.result)
          /\ disk' = step.disk
          /\ dirs' = step.dirs
    /\ UNCHANGED <<pureVars, historyVars, scanned_files, template, preview_options, preview,
                   client_proposals, selection, batch_result, pc, interference, disk0>>

\* a variant of ExecuteFinish that also returns as soon as a failure has been
\* recorded (what propagating the error with `?` would do)
ExecuteFinishOnFailure ==
    /\ pc = "executing"
    /\ \/ Len(rename_results) = Len(client_proposals)
       \/ /\ rename_results # <<>>
          /\ rename_results[Len(rename_results)].outcome = "Failed"
    /\ batch_result' = Some(BatchRenameResult(rename_results))
    /\ pc' = "done"
    /\ UNCHANGED <<pureVars, historyVars, scanned_files, template, preview_options, disk, dirs, preview,
                   client_proposals, selection, rename_results, interference, disk0>>

\* the loop is over: the summary is computed and the result returned
ExecuteFinish ==
    /\ pc = "executing"
    /\ Len(rename_results) = Len(client_proposals)
    /\ batch_result' = Some(BatchRenameResult(rename_results))
    /\ pc' = "done"
    /\ UNCHANGED <<pureVars, historyVars, scanned_files, template, preview_options, disk, dirs, preview,
                   client_proposals, selection, rename_results, interference, disk0>>

Next ==
    \/ GeneratePreview
    \/ ClientEdit
    \/ ExternalCreate
    \/ ExternalDelete
    \/ ExecuteStart
    \/ ExecuteStep
    \/ ExecuteFinish

Spec == Init /\ [][Next]_vars

(***************************************************************************)
(* Properties of the preview/apply flow                                    *)
(***************************************************************************)
Previewed == pc # "scanned" /\ pc # "idle"
Executed == pc \in {"executing", "done"}
PreviewProposals == unwrap(preview).proposals
IsSelected(proposal) == selection = None \/ proposal.id \in unwrap(selection)
HasConflict(proposal, type) ==
    /\ proposal.status = "Conflict"
    /\ is_some(proposal.conflict)
    /\ unwrap(proposal.conflict).conflict_type = type
\* where the content that was at canonical path q is now
PathsOf(content) == {q \in DOMAIN disk : disk[q] = content}
\* the canonical destinations proposed for the file at canonical path q
ProposedFor(q) ==
    {resolve(client_proposals[k].proposed_path, dirs) :
        k \in {j \in DOMAIN client_proposals :
                 resolve(client_proposals[j].original_path, dirs) = q}}

\* C1: when execute_rename runs on exactly the proposals of generate_preview
\* and nothing else touched the disk since the preview, no two successful
\* renames wrote the same destination, and every file that was on disk
\* before the batch is still there at exactly one path, its original path or
\* its proposed path (so no rename replaced an existing file).
C1_NoDataLoss ==
    (Executed /\ interference = "none") =>
        /\ \A i, j \in DOMAIN rename_results :
              (i < j /\ rename_results[i].outcome = "Success"
                     /\ rename_results[j].outcome = "Success")
              => resolve(unwrap(rename_results[i].new_path), dirs)
                   # resolve(unwrap(rename_results[j].new_path), dirs)
        /\ \A q \in DOMAIN disk0 :
              /\ Cardinality(PathsOf(disk0[q])) = 1
              /\ PathsOf(disk0[q]) \subseteq {q} \cup ProposedFor(q)

\* C2: a step of execute_rename that records Failed for a proposal leaves the
\* disk as it was (earlier renames are not undone), leaves the earlier
\* results alone, and the loop goes on; execute_rename returns only with a
\* result for every proposal, and its success flag says whether any failed.
C2_FailedStep ==
    LET k == Len(rename_results) + 1
    IN (pc = "executing" /\ Len(rename_results') = k
                         /\ rename_results'[k].outcome = "Failed")
       => /\ disk' = disk
          /\ SubSeq(rename_results', 1, k - 1) = rename_results
          /\ rename_results'[k].proposal_id = client_proposals[k].id
          /\ pc' = "executing"
C2_Returned ==
    pc' = "done" =>
        /\ is_some(batch_result')
        /\ Len(unwrap(batch_result').results) = Len(client_proposals')
        /\ unwrap(batch_result').success
             = (\A k \in DOMAIN rename_results' : rename_results'[k].outcome # "Failed")
C2_FailureIsolation == [][C2_FailedStep /\ C2_Returned]_vars

\* a batch that went on after a failure: a Failed result followed by a
\* Success, and a result object with success = false
C2_Witness ==
    /\ pc = "done"
    /\ ~unwrap(batch_result).success
    /\ \E i, j \in DOMAIN rename_results :
          /\ i < j
          /\ rename_results[i].outcome = "Failed"
          /\ rename_results[j].outcome = "Success"
          /\ resolve(unwrap(rename_results[j].new_path), dirs) \in DOMAIN disk

\* C3: the results of execute_rename are, position by position, one result
\* per input proposal carrying its id and original path; the returned list
\* has exactly as many results as there were proposals.
C3_OneResultPerProposal ==
    Executed =>
        /\ Len(rename_results) <= Len(client_proposals)
        /\ \A k \in DOMAIN rename_results :
              /\ rename_results[k].proposal_id = client_proposals[k].id
              /\ rename_results[k].original_path = client_proposals[k].original_path
        /\ pc = "done" =>
              /\ Len(rename_results) = Len(client_proposals)
              /\ unwrap(batch_result).results = rename_results

\* a finished batch of two proposals, one renamed and one left out by the
\* selection
C3_Witness ==
    /\ pc = "done"
    /\ Len(unwrap(batch_result).results) = 2
    /\ \E i, j \in DOMAIN rename_results :
          /\ rename_results[i].outcome = "Success"
          /\ rename_results[j].outcome = "Skipped"
          /\ ~IsSelected(client_proposals[j])

C5_AllMembersConflict ==
    pc = "previewed" =>
        \A i, j \in DOMAIN PreviewProposals :
            (i # j /\ to_lowercase(PreviewProposals[i].proposed_path)
                        = to_lowercase(PreviewProposals[j].proposed_path))
            => HasConflict(PreviewProposals[i], "duplicate-name")

\* C5 (amended): in the preview every proposal that shares its destination
\* path, ignoring case, with another proposal and that the per-file checks
\* left Ready (it is neither NoChange nor InvalidName) is a Conflict of type
\* duplicate-name.
C5_ReadyMembersConflict ==
    pc = "previewed" =>
        \A i, j \in DOMAIN PreviewProposals :
            (/\ i # j
             /\ PreviewProposals[i].status \notin {"NoChange", "InvalidName"}
             /\ to_lowercase(PreviewProposals[i].proposed_path)
                  = to_lowercase(PreviewProposals[j].proposed_path))
            => HasConflict(PreviewProposals[i], "duplicate-name")

\* two proposals whose destinations differ only in case, both marked
C5_Witness ==
    /\ pc = "previewed"
    /\ \E i, j \in DOMAIN PreviewProposals :
          /\ i # j
          /\ PreviewProposals[i].proposed_path # PreviewProposals[j].proposed_path
          /\ to_lowercase(PreviewProposals[i].proposed_path)
               = to_lowercase(PreviewProposals[j].proposed_path)
          /\ HasConflict(PreviewProposals[i], "duplicate-name")
          /\ HasConflict(PreviewProposals[j], "duplicate-name")

\* C6: right after generate_preview, a proposal that came out of the batch
\* pass Ready (it is now Ready or a file-exists Conflict) is a Conflict of
\* type file-exists recording the existing path exactly when its proposed
\* path exists on disk and differs from its original path; otherwise it is
\* Ready.
C6_FilesystemPass ==
    (pc = "previewed" /\ interference = "none") =>
        \A k \in DOMAIN PreviewProposals :
            LET proposal == PreviewProposals[k]
                taken == /\ exists(proposal.proposed_path, disk, dirs)
                         /\ proposal.proposed_path # proposal.original_path
            IN (proposal.status = "Ready" \/ HasConflict(proposal, "file-exists"))
               => IF taken
                  THEN /\ HasConflict(proposal, "file-exists")
                       /\ unwrap(proposal.conflict).existing_file_path
                            = Some(proposal.proposed_path)
                  ELSE proposal.status = "Ready"

\* a preview with a file-exists Conflict for a destination that is on disk
\* and a Ready proposal for a destination that is not
C6_Witness ==
    /\ pc = "previewed"
    /\ interference = "none"
    /\ \E i, j \in DOMAIN PreviewProposals :
          /\ HasConflict(PreviewProposals[i], "file-exists")
          /\ exists(PreviewProposals[i].proposed_path, disk, dirs)
          /\ PreviewProposals[j].status = "Ready"
          /\ ~exists(PreviewProposals[j].proposed_path, disk, dirs)

\* C7: in the preview every proposal whose proposed name is the original
\* full name and that is not a folder move has status NoChange, and
\* summary.no_change counts these proposals.
C7_NoChangeDetected ==
    Previewed =>
        /\ \A k \in DOMAIN PreviewProposals :
              (/\ PreviewProposals[k].proposed_name = PreviewProposals[k].original_name
               /\ ~PreviewProposals[k].is_folder_move)
              => PreviewProposals[k].status = "NoChange"
        /\ unwrap(preview).summary.no_change
             = Cardinality({k \in DOMAIN PreviewProposals :
                              /\ PreviewProposals[k].proposed_name
                                   = PreviewProposals[k].original_name
                              /\ ~PreviewProposals[k].is_folder_move})

\* C13: in the result execute_rename returns, summary.total is the number of
\* input proposals; succeeded, failed and skipped are the numbers of results
\* with that outcome and add up to total; success is true exactly when
\* failed = 0, so a batch in which everything is skipped reports success.
C13_BatchResultConsistent ==
    pc = "done" =>
        LET r == unwrap(batch_result)
            n(outcome) == Cardinality({k \in DOMAIN r.results : r.results[k].outcome = outcome})
        IN /\ r.summary.total = Len(client_proposals)
           /\ r.summary.succeeded = n("Success")
           /\ r.summary.failed = n("Failed")
           /\ r.summary.skipped = n("Skipped")
           /\ r.summary.succeeded + r.summary.failed + r.summary.skipped = r.summary.total
           /\ r.success = (r.summary.failed = 0)
           /\ r.summary.skipped = r.summary.total => r.success

\* a batch of two proposals, both skipped, that reports success
C13_Witness ==
    /\ pc = "done"
    /\ unwrap(batch_result).summary.total = 2
    /\ unwrap(batch_result).summary.skipped = 2
    /\ unwrap(batch_result).success

\* C14: in every preview ready + conflicts + missing_data + no_change +
\* invalid_name = total = the number of proposals, and rename_count +
\* move_count + no_change_count + conflict_count + error_count = the number
\* of proposals.
C14_SummariesPartition ==
    pc = "previewed" =>
        LET p == unwrap(preview)
        IN /\ p.summary.total = Len(p.proposals)
           /\ p.summary.ready + p.summary.conflicts + p.summary.missing_data
                + p.summary.no_change + p.summary.invalid_name = p.summary.total
           /\ p.action_summary.rename_count + p.action_summary.move_count
                + p.action_summary.no_change_count + p.action_summary.conflict_count
                + p.action_summary.error_count = Len(p.proposals)

\* a preview of two files, one unchanged and one to rename
C14_Witness ==
    /\ pc = "previewed"
    /\ unwrap(preview).summary.total = 2
    /\ unwrap(preview).summary.no_change = 1
    /\ unwrap(preview).summary.ready = 1
    /\ unwrap(preview).action_summary.no_change_count = 1
    /\ unwrap(preview).action_summary.rename_count = 1

\* C15: in a preview the action_type of a proposal matches its status: Ready
\* gives Move when is_folder_move and Rename otherwise, NoChange gives
\* NoChange, Conflict gives Conflict, InvalidName gives Error; no other
\* status appears.
C15_ActionMatchesStatus ==
    pc = "previewed" =>
        \A k \in DOMAIN PreviewProposals :
            LET proposal == PreviewProposals[k]
            IN /\ proposal.status \in {"Ready", "NoChange", "Conflict", "InvalidName"}
               /\ proposal.action_type =
                    (CASE proposal.status = "Ready" ->
                             (IF proposal.is_folder_move THEN "Move" ELSE "Rename")
                       [] proposal.status = "NoChange" -> "NoChange"
                       [] proposal.status = "Conflict" -> "Conflict"
                       [] proposal.status = "InvalidName" -> "Error")

\* a preview with a Ready move and, for a file that would move as well, an
\* invalid name
C15_Witness ==
    /\ pc = "previewed"
    /\ \E i, j \in DOMAIN PreviewProposals :
          /\ PreviewProposals[i].status = "Ready"
          /\ PreviewProposals[i].is_folder_move
          /\ PreviewProposals[i].action_type = "Move"
          /\ PreviewProposals[j].status = "InvalidName"
          /\ PreviewProposals[j].is_folder_move
          /\ PreviewProposals[j].action_type = "Error"

\* the proposals of the preview that share their proposed path, ignoring
\* case, with proposal k (k included)
C16_Colliding(k) ==
    {j \in DOMAIN PreviewProposals :
        to_lowercase(PreviewProposals[j].proposed_path)
          = to_lowercase(PreviewProposals[k].proposed_path)}

C19_SanitizedIsValid ==
    (pc = "previewed" /\ preview_options.case_style = "none") =>
        \A k \in DOMAIN PreviewProposals :
            PreviewProposals[k].proposed_name # <<>>
            => /\ is_valid_filename(PreviewProposals[k].proposed_name)
               /\ PreviewProposals[k].status # "InvalidName"

\* C21: when another program created a file at the destination of a proposal
\* after the preview, execute_rename leaves that file with its content, and
\* the proposal, if it is Ready and selected, is reported Failed.
C21_NoReplaceAtDestination ==
    (Executed /\ interference = "created") =>
        \A q \in DOMAIN disk0 :
            disk0[q] = ForeignContent =>
                /\ q \in DOMAIN disk
                /\ disk[q] = ForeignContent
                /\ \A k \in DOMAIN rename_results :
                      (/\ client_proposals[k].status = "Ready"
                       /\ IsSelected(client_proposals[k])
                       /\ resolve(client_proposals[k].proposed_path, dirs) = q)
                      => rename_results[k].outcome = "Failed"

\* a folder pattern is in effect: organize options in organize mode, or a
\* legacy folder pattern
C22_PatternInEffect ==
    \/ preview_options.reorganization_mode = "organize" /\ is_some(preview_options.organize_options)
    \/ is_some(preview_options.folder_pattern)

C23_ResultShape ==
    Executed =>
        \A k \in DOMAIN rename_results :
            IF rename_results[k].outcome = "Success"
            THEN /\ rename_results[k].new_path = Some(client_proposals[k].proposed_path)
                 /\ rename_results[k].new_name = Some(client_proposals[k].proposed_name)
                 /\ rename_results[k].error = None
            ELSE /\ rename_results[k].outcome \in {"Failed", "Skipped"}
                 /\ rename_results[k].new_path = None
                 /\ rename_results[k].new_name = None
                 /\ is_some(rename_results[k].error)
                 /\ unwrap(rename_results[k].error) # ""

\* a finished batch with a Success result and a Failed result of fs::rename
C23_Witness ==
    /\ pc = "done"
    /\ \E i, j \in DOMAIN rename_results :
          /\ rename_results[i].outcome = "Success"
          /\ is_some(rename_results[i].new_path)
          /\ rename_results[j].outcome = "Failed"
          /\ rename_results[j].error = Some("rename failed")

\* the issue codes of a proposal, in order
C24_Codes(proposal) == [i \in DOMAIN proposal.issues |-> proposal.issues[i].code]

\* C24: in every preview conflict details are present exactly for status
\* Conflict; an INVALID_NAME issue is present exactly for status InvalidName;
\* exactly one of DUPLICATE_NAME and FILE_EXISTS is present for status
\* Conflict and neither for any other status; Ready and NoChange proposals
\* have no issue.
C24_IssuesMatchStatus ==
    pc = "previewed" =>
        \A k \in DOMAIN PreviewProposals :
            LET proposal == PreviewProposals[k]
                has(code) == \E i \in DOMAIN proposal.issues : proposal.issues[i].code = code
            IN /\ is_some(proposal.conflict) = (proposal.status = "Conflict")
               /\ has("INVALID_NAME") = (proposal.status = "InvalidName")
               /\ (has("DUPLICATE_NAME") \/ has("FILE_EXISTS")) = (proposal.status = "Conflict")
               /\ ~(has("DUPLICATE_NAME") /\ has("FILE_EXISTS"))
               /\ proposal.status = "Conflict" =>
                     C24_Codes(proposal)
                       = <<IF unwrap(proposal.conflict).conflict_type = "duplicate-name"
                           THEN "DUPLICATE_NAME" ELSE "FILE_EXISTS">>
               /\ proposal.status \in {"Ready", "NoChange"} => proposal.issues = <<>>

\* a preview with a file-exists Conflict and an InvalidName proposal, each
\* with its one issue
C24_Witness ==
    /\ pc = "previewed"
    /\ \E i, j \in DOMAIN PreviewProposals :
          /\ HasConflict(PreviewProposals[i], "file-exists")
          /\ C24_Codes(PreviewProposals[i]) = <<"FILE_EXISTS">>
          /\ PreviewProposals[j].status = "InvalidName"
          /\ C24_Codes(PreviewProposals[j]) = <<"INVALID_NAME">>
          /\ PreviewProposals[j].conflict = None

(***************************************************************************)
(* History store (apps/gui/src-tauri/src/commands/history.rs)              *)
(*   history_file : None when history.json does not exist, else            *)
(*                  Some(contents); contents is <<>> for a file of zero    *)
(*                  bytes and <<store>> for a serialized HistoryStore      *)
(*   history_lock : the flock locks held, as <<call, mode>> pairs          *)
(*   calls        : one record per command call, with its position         *)
(* A store is modelled by its entries; an entry by its id, its file        *)
(* records and its undone flag.                                            *)
(***************************************************************************)
MAX_HISTORY_ENTRIES == 500

HistoryStore(entries) == [entries |-> entries]

\* HistoryStore::default()
DefaultStore == HistoryStore(<<>>)

FileHistoryRecord(r) ==
    [original_path |-> r.original_path,
     new_path |-> r.new_path,
     success |-> r.outcome = "Success"]

\* Uuid::new_v4 in the call at position `k`: an id no stored entry has
Uuid(k) == MAX_HISTORY_ENTRIES + k

create_entry_from_result(id, result) ==
    [id |-> id,
     files |-> [k \in DOMAIN result.results |-> FileHistoryRecord(result.results[k])],
     undone |-> FALSE]

\* a command that has just been called
Call(op, entry_id, entry) ==
    [op |-> op,
     pc |-> IF op \in {"load_history", "undo_operation"} THEN "load" ELSE "open",
     entry_id |-> entry_id,
     entry |-> entry,
     store |-> None,
     files |-> <<>>,
     next_file |-> 1,
     files_restored |-> 0,
     files_failed |-> 0,
     ret |-> "running"]

\* flock: a shared lock waits for an exclusive one, an exclusive lock for
\* every other lock
CanLockShared(locks) == \A l \in locks : l[2] = "shared"

\* a lock that is granted whatever is held
CanLockAlways(locks) == TRUE

CanLockExclusive(locks) == locks = {}

\* store.entries.iter().find(|e| e.id == entry_id): its position, 0 if none
find(entries, entry_id) ==
    IF \E k \in DOMAIN entries : entries[k].id = entry_id
    THEN CHOOSE k \in DOMAIN entries :
            /\ entries[k].id = entry_id
            /\ \A j \in DOMAIN entries : entries[j].id = entry_id => k <= j
    ELSE 0

\* a variant of the closure of record_operation that appends the entry and
\* keeps the last MAX_HISTORY_ENTRIES
RecordEntryAppended(store, entry) ==
    LET all == Append(store.entries, entry)
    IN HistoryStore(IF Len(all) > MAX_HISTORY_ENTRIES
                    THEN SubSeq(all, Len(all) - MAX_HISTORY_ENTRIES + 1, Len(all))
                    ELSE all)

\* the closure of record_operation: insert(0, entry), then truncate
RecordEntry(store, entry) ==
    LET all == <<entry>> \o store.entries
    IN HistoryStore(IF Len(all) > MAX_HISTORY_ENTRIES
                    THEN SubSeq(all, 1, MAX_HISTORY_ENTRIES)
                    ELSE all)

\* the closure of undo_operation, step 3
MarkUndone(store, entry_id) ==
    LET k == find(store.entries, entry_id)
    IN IF k = 0 THEN store
       ELSE HistoryStore([store.entries EXCEPT ![k].undone = TRUE])

\* the closure of clear_history
ClearEntries(store) == HistoryStore(<<>>)

\* modify_fn of the call, applied to the store read under the lock
Modify(call, store) ==
    IF call.op = "record_operation" THEN RecordEntry(store, unwrap(call.entry))
    ELSE IF call.op = "undo_operation" THEN MarkUndone(store, call.entry_id)
    ELSE ClearEntries(store)

\* load_history, `if !path.exists()` and File::open
LoadOpened(call, file) ==
    IF is_some(file) THEN [call EXCEPT !.pc = "lock_shared"]
    ELSE IF call.op = "load_history"
    THEN [call EXCEPT !.pc = "done", !.store = Some(DefaultStore), !.ret = "Ok"]
    ELSE [call EXCEPT !.pc = "done", !.ret = "EntryNotFound"]

\* what follows load_history in undo_operation: find the entry, refuse an
\* entry that is undone, clone its files
UndoLoaded(call, store) ==
    LET k == find(store.entries, call.entry_id)
    IN IF k = 0 THEN [call EXCEPT !.pc = "done", !.ret = "EntryNotFound"]
       ELSE IF store.entries[k].undone THEN [call EXCEPT !.pc = "done", !.ret = "UndoFailed"]
       ELSE [call EXCEPT !.pc = "restore", !.files = store.entries[k].files]

\* load_history, read_to_string and serde_json::from_str: no store can be
\* parsed from a file of zero bytes
LoadParsed(call, contents) ==
    IF contents = <<>> THEN [call EXCEPT !.pc = "done", !.ret = "LoadFailed"]
    ELSE IF call.op = "load_history"
    THEN [call EXCEPT !.pc = "done", !.store = Some(contents[1]), !.ret = "Ok"]
    ELSE UndoLoaded(call, contents[1])

\* one iteration of the loop of undo_operation, step 2
RestoreFile(call, file, dk, ds) ==
    LET advanced == [call EXCEPT !.next_file = @ + 1]
        moved == rename(unwrap(file.new_path), file.original_path, dk, ds)
    IN IF ~file.success \/ ~is_some(file.new_path) THEN [call |-> advanced, disk |-> dk]
       ELSE IF ~exists(unwrap(file.new_path), dk, ds)
       THEN [call |-> [advanced EXCEPT !.files_failed = @ + 1], disk |-> dk]
       ELSE IF moved.ok
       THEN [call |-> [advanced EXCEPT !.files_restored = @ + 1], disk |-> moved.disk]
       ELSE [call |-> [advanced EXCEPT !.files_failed = @ + 1], disk |-> dk]

\* load_history: the file exists and is opened, or the default store is
\* returned
LoadOpen ==
    /\ \E c \in DOMAIN calls :
          /\ calls[c].pc = "load"
          /\ calls' = [calls EXCEPT ![c] = LoadOpened(calls[c], history_file)]
    /\ UNCHANGED <<pureVars, mainVars, history_file, history_lock, history0>>

\* load_history: file.lock_shared()
LoadLock ==
    /\ \E c \in DOMAIN calls :
          /\ calls[c].pc = "lock_shared"
          /\ CanLockShared(history_lock)
          /\ history_lock' = history_lock \cup {<<c, "shared">>}
          /\ calls' = [calls EXCEPT ![c].pc = "read"]
    /\ UNCHANGED <<pureVars, mainVars, history_file, history0>>

\* load_history: the contents are read and parsed, the lock is released
\* when the file is dropped; undo_operation goes on with the store
LoadRead ==
    /\ \E c \in DOMAIN calls :
          /\ calls[c].pc = "read"
          /\ history_lock' = history_lock \ {<<c, "shared">>}
          /\ calls' = [calls EXCEPT ![c] = LoadParsed(calls[c], unwrap(history_file))]
    /\ UNCHANGED <<pureVars, mainVars, history_file, history0>>

\* undo_operation, step 2: the next file of the entry, no lock held
UndoRestore ==
    /\ \E c \in DOMAIN calls :
          /\ calls[c].pc = "restore"
          /\ calls[c].next_file <= Len(calls[c].files)
          /\ LET step == RestoreFile(calls[c], calls[c].files[calls[c].next_file], disk, dirs)
             IN /\ calls' = [calls EXCEPT ![c] = step.call]
                /\ disk' = step.disk
    /\ UNCHANGED <<pureVars, scanned_files, template, preview_options, dirs, preview,
                   client_proposals, selection, rename_results, batch_result, pc,
                   interference, disk0, history_file, history_lock, history0>>

\* undo_operation, after the loop: the entry is marked only when a file was
\* restored
UndoRestored ==
    /\ \E c \in DOMAIN calls :
          /\ calls[c].pc = "restore"
          /\ calls[c].next_file > Len(calls[c].files)
          /\ calls' = [calls EXCEPT ![c] =
                          IF calls[c].files_restored > 0
                          THEN [calls[c] EXCEPT !.pc = "open"]
                          ELSE [calls[c] EXCEPT !.pc = "done", !.ret = "Ok"]]
    /\ UNCHANGED <<pureVars, mainVars, history_file, history_lock, history0>>

\* with_locked_history: OpenOptions .create(true).truncate(false).open()
LockedOpen ==
    /\ \E c \in DOMAIN calls :
          /\ calls[c].pc = "open"
          /\ history_file' = IF is_some(history_file) THEN history_file ELSE Some(<<>>)
          /\ calls' = [calls EXCEPT ![c].pc = "lock_exclusive"]
    /\ UNCHANGED <<pureVars, mainVars, history_lock, history0>>

\* with_locked_history: lock_exclusive, read_to_string, the store parsed or
\* defaulted, modify_fn applied
LockedRead ==
    /\ \E c \in DOMAIN calls :
          /\ calls[c].pc = "lock_exclusive"
          /\ CanLockExclusive(history_lock)
          /\ history_lock' = history_lock \cup {<<c, "exclusive">>}
          /\ LET contents == unwrap(history_file)
                 store == IF contents = <<>> THEN DefaultStore ELSE contents[1]
             IN calls' = [calls EXCEPT ![c].pc = "save",
                                       ![c].store = Some(Modify(calls[c], store))]
    /\ UNCHANGED <<pureVars, mainVars, history_file, history0>>

\* save_history_internal: file.set_len(0)
SaveTruncate ==
    /\ \E c \in DOMAIN calls :
          /\ calls[c].pc = "save"
          /\ history_file' = Some(<<>>)
          /\ calls' = [calls EXCEPT ![c].pc = "write"]
    /\ UNCHANGED <<pureVars, mainVars, history_lock, history0>>

\* save_history_internal: write_all and sync_all; the lock is released when
\* the file is dropped and the command returns
SaveWrite ==
    /\ \E c \in DOMAIN calls :
          /\ calls[c].pc = "write"
          /\ history_file' = Some(<<unwrap(calls[c].store)>>)
          /\ history_lock' = history_lock \ {<<c, "exclusive">>}
          /\ calls' = [calls EXCEPT ![c].pc = "done", ![c].ret = "Ok"]
    /\ UNCHANGED <<pureVars, mainVars, history0>>

(***************************************************************************)
(* SpecUndo: a preview is applied, the result is recorded and the entry is *)
(* undone, one command after the other and nothing else touching the       *)
(* filesystem                                                              *)
(***************************************************************************)
\* the client records the BatchRenameResult it got from execute_rename
RecordOperation ==
    /\ pc = "done"
    /\ calls = <<>>
    /\ calls' = <<Call("record_operation", 0,
                       Some(create_entry_from_result(Uuid(1), unwrap(batch_result))))>>
    /\ UNCHANGED <<pureVars, mainVars, history_file, history_lock, history0>>

\* the client undoes the entry record_operation returned
UndoOperation ==
    /\ Len(calls) = 1
    /\ calls[1].pc = "done"
    /\ calls' = Append(calls, Call("undo_operation", unwrap(calls[1].entry).id, None))
    /\ UNCHANGED <<pureVars, mainVars, history_file, history_lock, history0>>

NextUndo ==
    \/ GeneratePreview
    \/ ExecuteStart
    \/ ExecuteStep
    \/ ExecuteFinish
    \/ RecordOperation
    \/ UndoOperation
    \/ LoadOpen
    \/ LoadLock
    \/ LoadRead
    \/ UndoRestore
    \/ UndoRestored
    \/ LockedOpen
    \/ LockedRead
    \/ SaveTruncate
    \/ SaveWrite

SpecUndo == Init /\ [][NextUndo]_vars

(***************************************************************************)
(* SpecHistory: history commands called concurrently (async Tauri          *)
(* commands) on a history that holds an entry for two renamed files        *)
(***************************************************************************)
MaxCalls == 2

HistoryOps == {"record_operation", "load_history", "undo_operation", "clear_history"}

\* the files of the newest stored entry: a.jpg and b.jpg of /r/a, renamed
RenamedFiles ==
    <<[original_path |-> child(DirA, <<"a", ".", "j", "p", "g">>),
       new_path |-> Some(child(DirA, <<"a", "_", "x", ".", "j", "p", "g">>)),
       outcome |-> "Success"],
      [original_path |-> child(DirA, <<"b", ".", "j", "p", "g">>),
       new_path |-> Some(child(DirA, <<"b", "_", "x", ".", "j", "p", "g">>)),
       outcome |-> "Success"]>>

\* a store of `n` entries, newest first, ids n down to 1; the newest is the
\* entry of RenamedFiles
StoredEntries(n) ==
    [k \in 1..n |->
        create_entry_from_result(n + 1 - k,
                                 [results |-> IF k = 1 THEN RenamedFiles ELSE <<>>])]

\* history.json before the calls: absent, or a store that is short, one
\* below the limit, or at the limit
StoredCounts == {1, MAX_HISTORY_ENTRIES - 1, MAX_HISTORY_ENTRIES}

InitialHistoryFiles ==
    {None} \cup {Some(<<HistoryStore(StoredEntries(n))>>) : n \in StoredCounts}

\* the call at position `k`: undo_operation is for the newest stored entry,
\* record_operation for the result of an empty batch
HistoryCall(op, k, file) ==
    Call(op,
         IF op = "undo_operation" /\ is_some(file) THEN Len(unwrap(file)[1].entries) ELSE 0,
         IF op = "record_operation"
         THEN Some(create_entry_from_result(Uuid(k), [results |-> <<>>]))
         ELSE None)

InitHistory ==
    /\ input = [fn |-> "none"]
    /\ outputs = <<>>
    /\ scanned_files = <<>>
    /\ template = <<>>
    /\ preview_options = <<>>
    /\ disk = [q \in {unwrap(RenamedFiles[k].new_path) : k \in DOMAIN RenamedFiles} |->
                  LET k == CHOOSE j \in DOMAIN RenamedFiles :
                              unwrap(RenamedFiles[j].new_path) = q
                  IN RenamedFiles[k].original_path]
    /\ dirs = {Root, DirR, DirA}
    /\ preview = <<>>
    /\ client_proposals = <<>>
    /\ selection = <<>>
    /\ rename_results = <<>>
    /\ batch_result = <<>>
    /\ pc = "idle"
    /\ interference = "none"
    /\ disk0 = disk
    /\ history_file \in InitialHistoryFiles
    /\ history_lock = {}
    /\ \E ops \in [1..MaxCalls -> HistoryOps] :
          calls = [k \in 1..MaxCalls |-> HistoryCall(ops[k], k, history_file)]
    /\ history0 = history_file

NextHistory ==
    \/ LoadOpen
    \/ LoadLock
    \/ LoadRead
    \/ UndoRestore
    \/ UndoRestored
    \/ LockedOpen
    \/ LockedRead
    \/ SaveTruncate
    \/ SaveWrite

SpecHistory == InitHistory /\ [][NextHistory]_vars

(***************************************************************************)
(* Properties of the history store                                         *)
(***************************************************************************)
\* the calls of one command
CallsOf(op) == {c \in DOMAIN calls : calls[c].op = op}

\* the store history.json holds, the default store when there is none
StoredHistory ==
    IF is_some(history_file) /\ unwrap(history_file) # <<>>
    THEN unwrap(history_file)[1]
    ELSE DefaultStore

\* C25: undo round trip. When the proposals of a preview have been executed
\* with at least one rename succeeding, the result has been recorded and the
\* entry has been undone, nothing else having touched the filesystem, then
\* every file that was renamed successfully is back at its original path
\* with its own content, nothing is left at its new path, and the stored
\* entry is marked undone.
C25_UndoRoundTrip ==
    (/\ Len(calls) = 2
     /\ calls[2].op = "undo_operation"
     /\ calls[2].pc = "done"
     /\ \E k \in DOMAIN rename_results : rename_results[k].outcome = "Success")
    => /\ \A k \in DOMAIN rename_results :
             rename_results[k].outcome = "Success"
             => LET original == resolve(rename_results[k].original_path, dirs)
                    new == resolve(unwrap(rename_results[k].new_path), dirs)
                IN /\ original \in DOMAIN disk
                   /\ disk[original] = original
                   /\ new \notin DOMAIN disk
       /\ LET k == find(StoredHistory.entries, calls[2].entry_id)
          IN k # 0 /\ StoredHistory.entries[k].undone

\* C26: an operation is undone at most once. Of the undo_operation calls for
\* one history entry, also concurrent ones, at most one renames files back;
\* every other call renames nothing and returns UndoFailed ("Operation
\* already undone").
C26_UndoneAtMostOnce ==
    \A c1, c2 \in CallsOf("undo_operation") :
        (/\ c1 # c2
         /\ calls[c1].entry_id = calls[c2].entry_id
         /\ calls[c1].files_restored > 0)
        => /\ calls[c2].files_restored = 0
           /\ calls[c2].pc = "done" => calls[c2].ret = "UndoFailed"

\* the entries history.json held before the calls
EntriesBefore ==
    IF is_some(history0) /\ unwrap(history0) # <<>>
    THEN unwrap(history0)[1].entries
    ELSE <<>>

IdsOf(entries) == {entries[k].id : k \in DOMAIN entries}

AllReturned == \A c \in DOMAIN calls : calls[c].pc = "done"

\* C27: no lost history updates. When k record_operation calls, running
\* concurrently with each other and with load_history and undo_operation
\* calls, have all returned Ok on a store that held n entries, n + k <= 500,
\* and no clear_history was called, the store holds n + k entries: the n it
\* held and each of the k new ones.
C27_NoLostUpdate ==
    (/\ AllReturned
     /\ CallsOf("clear_history") = {}
     /\ \A c \in CallsOf("record_operation") : calls[c].ret = "Ok"
     /\ Len(EntriesBefore) + Cardinality(CallsOf("record_operation")) <= MAX_HISTORY_ENTRIES)
    => /\ Len(StoredHistory.entries)
             = Len(EntriesBefore) + Cardinality(CallsOf("record_operation"))
       /\ IdsOf(StoredHistory.entries)
             = IdsOf(EntriesBefore)
               \cup {unwrap(calls[c].entry).id : c \in CallsOf("record_operation")}

\* two record_operation calls have returned and the store, which held an
\* entry before, holds all three
C27_Witness ==
    /\ AllReturned
    /\ Cardinality(CallsOf("record_operation")) >= 2
    /\ Len(EntriesBefore) = 1
    /\ Len(StoredHistory.entries) = 1 + Cardinality(CallsOf("record_operation"))

\* C28: readers of the history see a consistent snapshot. A load_history
\* call that runs concurrently with record_operation, clear_history or
\* undo_operation returns Ok with a store the file held before or after a
\* write: entries the file held before the calls or that a call recorded,
\* and never an error from a file that is empty or partially written.
C28_ConsistentSnapshot ==
    \A c \in CallsOf("load_history") :
        calls[c].pc = "done"
        => /\ calls[c].ret = "Ok"
           /\ is_some(calls[c].store)
           /\ IdsOf(unwrap(calls[c].store).entries)
                 \subseteq IdsOf(EntriesBefore)
                           \cup {unwrap(calls[w].entry).id : w \in CallsOf("record_operation")}

\* the record_operation calls that have written their entry
Recorded == {c \in CallsOf("record_operation") : calls[c].pc = "done"}

=============================================================================
